---- MODULE Spec2Model ----
(***************************************************************************)
(* A model of the progressive record matcher of TRAQ_VS:                   *)
(* common/data_ingestion/data_merger.py, class DataMerger (Spec), and of   *)
(* the units around it, each under a specification of its own: the lookup  *)
(* of the priority list (SpecLookup), the cleaning of the key-feeding      *)
(* columns (SpecKeyGenerator), the DerivOne deduplicator                   *)
(* (SpecDeduplicator), the segregation filters (SpecFilters), a second     *)
(* merge_data call on one DataMerger (SpecSecondCall), the TSR and         *)
(* DerivOne key generators from validation to keys (SpecKeyGeneration),    *)
(* the asset-class loop of diagnostic_main.main (SpecMain) and the Config  *)
(* singleton of args_config.py (SpecConfig).                               *)
(*                                                                         *)
(* A DataFrame is a record [columns, rows]: columns is the sequence of     *)
(* column names and every row is a tuple of values aligned with it.  The   *)
(* index labels of the two working frames are the row positions 1..n (the  *)
(* frames the readers hand over carry a unique index); every frame the     *)
(* code builds with reset_index(drop=True) is indexed by position too.     *)
(* Row numbers are 1-based here and 0-based in pandas.                     *)
(*                                                                         *)
(* Each input row carries one identifying column ("UTI" on the left,       *)
(* "Trade Ref" on the right) whose value is unique in its frame, so that a *)
(* record can be recognised in the copies the result is made of.  The      *)
(* matcher never reads it.                                                 *)
(***************************************************************************)
EXTENDS Integers, Sequences, FiniteSets, TLC

(* ----------------------------- bounds ---------------------------------- *)
\* most rows of the LEFT input frame
MaxLeft == 2
\* most rows of the RIGHT input frame
MaxRight == 2
\* most rows of a TSR frame handed to a key generator
MaxTsrRows == 2
\* most rows of a DerivOne frame handed to the deduplicator
MaxDedupRows == 2
\* rows per chunk of create_deduplication_key; 100000 in the code
chunk_size == 1
\* most rows of a TSR frame handed to the segregation filters
MaxFilterRows == 2
\* most rows of a DerivOne frame handed to the key generator
MaxDerivOneRows == 2
\* most rows of a TSR frame run through validation, cleaning and keys
MaxTsrKeyRows == 1
\* most asset classes a run of main is asked for
MaxAssetClasses == 3

(* ----------------------------- inputs ---------------------------------- *)
\* df_left.columns as given to the constructor
left_columns == <<"UTI", "matching_key_uti">>

\* df_right.columns as given to the constructor
right_columns == <<"Trade Ref", "matching_key_huti", "matching_key_usi">>

\* matching_keys[regulator]['default'], the pairs the columns above feed:
\* ('matching_key_uti', 'matching_key_huti') is tried before
\* ('matching_key_uti', 'matching_key_usi') in every table
matching_keys == <<<<"matching_key_uti", "matching_key_huti">>,
                   <<"matching_key_uti", "matching_key_usi">>>>

\* (left_prefix, right_prefix) as the callers give them; '' is the default
PrefixChoices == {<<"", "">>, <<"", "Deriv1_">>, <<"TSR_", "Deriv1_">>}

ReturnTypes == {"left", "right", "inner", "full"}

\* the identifying value of the i-th LEFT / RIGHT input row
LeftId(i) == "L" \o ToString(i)

RightId(i) == "R" \o ToString(i)

Range(s) == {s[i] : i \in 1..Len(s)}

SeqsUpTo(S, n) == UNION {[1..k -> S] : k \in 0..n}

\* the values a matching key takes, as the key generators leave them: never
\* null, compared for equality only
KeyValues == <<"K1", "K2", "K3">>

\* the LEFT input frame whose rows have the matching_key_uti values ks
LeftFrame(ks) ==
  [columns |-> left_columns,
   rows |-> [i \in 1..Len(ks) |-> <<LeftId(i), ks[i]>>]]

\* the RIGHT input frame whose rows have the (matching_key_huti,
\* matching_key_usi) values ks
RightFrame(ks) ==
  [columns |-> right_columns,
   rows |-> [i \in 1..Len(ks) |-> <<RightId(i), ks[i][1], ks[i][2]>>]]

\* the key values of the two frames, LEFT rows first, in reading order
KeyValuesRead(lks, rks) ==
  lks \o [k \in 1..(2 * Len(rks)) |-> rks[(k + 1) \div 2][2 - (k % 2)]]

\* Renaming the key values changes no comparison the matcher makes, so of
\* the inputs that differ by a renaming one is taken: the one whose values
\* are named K1, K2, K3 in the order they are first read
Canonical(w) ==
  \A i \in 1..Len(w), v \in 2..Len(KeyValues) :
    w[i] = KeyValues[v] => \E j \in 1..(i - 1) : w[j] = KeyValues[v - 1]

\* the key values of the input frames: (LEFT, RIGHT)
InputKeys ==
  {ks \in SeqsUpTo(Range(KeyValues), MaxLeft)
          \X SeqsUpTo(Range(KeyValues) \X Range(KeyValues), MaxRight) :
     Canonical(KeyValuesRead(ks[1], ks[2]))}

\* the ordered key-pair lists get_matching_keys_for_regulator may hand over:
\* the table's list, a shorter one, and the empty list of a regulator
\* without a table
PriorityLists == {SubSeq(matching_keys, 1, n) : n \in 0..Len(matching_keys)}

(* --------------------------- frame helpers ----------------------------- *)
EmptyFrame == [columns |-> <<>>, rows |-> <<>>]

\* [f"{prefix}{col}" for col in columns]
AddPrefix(prefix, cols) == [i \in 1..Len(cols) |-> prefix \o cols[i]]

\* position of the first column called name (0: no such column)
ColPos(cols, name) ==
  IF \E i \in 1..Len(cols) : cols[i] = name
  THEN CHOOSE i \in 1..Len(cols) :
         cols[i] = name /\ \A j \in 1..(i - 1) : cols[j] # name
  ELSE 0

\* df[name] at row position p
Value(df, p, name) == df.rows[p][ColPos(df.columns, name)]

\* the positions 1..n of a frame of n rows, in order
Rows(n) == [i \in 1..n |-> i]

\* pd.concat([a, b], axis=1) of two frames indexed 1..n alike
ConcatColumns(a, b) ==
  [columns |-> a.columns \o b.columns,
   rows |-> [i \in 1..Len(a.rows) |-> a.rows[i] \o b.rows[i]]]

\* df.insert(len(df.columns), 'matching_flag', [flag] * len(df))
InsertFlag(df, flag) ==
  [columns |-> Append(df.columns, "matching_flag"),
   rows |-> [i \in 1..Len(df.rows) |-> Append(df.rows[i], flag)]]

\* the columns of cols, in order of first appearance, without repeats
RECURSIVE UnionColumns(_, _)
UnionColumns(acc, cols) ==
  IF cols = <<>> THEN acc
  ELSE UnionColumns(IF Head(cols) \in Range(acc) THEN acc
                    ELSE Append(acc, Head(cols)), Tail(cols))

RECURSIVE AllColumns(_, _)
AllColumns(acc, dfs) ==
  IF dfs = <<>> THEN acc
  ELSE AllColumns(UnionColumns(acc, Head(dfs).columns), Tail(dfs))

\* a row of df laid out on the columns cols, NaN where df has no such column
Reindex(df, p, cols) ==
  [c \in 1..Len(cols) |->
     IF ColPos(df.columns, cols[c]) = 0 THEN "NaN"
     ELSE Value(df, p, cols[c])]

RECURSIVE ConcatRows(_, _)
ConcatRows(dfs, cols) ==
  IF dfs = <<>> THEN <<>>
  ELSE [p \in 1..Len(Head(dfs).rows) |-> Reindex(Head(dfs), p, cols)]
       \o ConcatRows(Tail(dfs), cols)

\* pd.concat(dfs, ignore_index=True)
Concat(dfs) ==
  LET cols == AllColumns(<<>>, dfs)
  IN [columns |-> cols, rows |-> ConcatRows(dfs, cols)]

(* ------------------------------ state ---------------------------------- *)
VARIABLES
  caller_left,            \* the frame the caller passes as df_left
  caller_right,           \* the frame the caller passes as df_right
  given,                  \* history: the two frames as they were passed
  df_left,                \* self.df_left
  df_right,               \* self.df_right
  left_prefix,            \* self.left_prefix
  right_prefix,           \* self.right_prefix
  on_keys_list,           \* self.on_keys_list
  pc,                     \* where the call of merge_data stands
  return_type,            \* the argument of merge_data
  iteration,              \* the loop's position in on_keys_list
  left_matched_indices,   \* index labels of the matched LEFT rows
  right_matched_indices,  \* index labels of the matched RIGHT rows
  matched_dfs,            \* the matched frames, one per round that matched
  result,                 \* the frame merge_data returns
  rounds,                 \* history: the rounds run, each with its pools
  lookup,                 \* a call of get_matching_keys_for_regulator
  key_generator,          \* a TSRKeyGenerator
  deduplicator,           \* a DerivOneDeduplicator
  tsr_filters,            \* a TSRFilters
  derivone_key_generator, \* a DerivOneKeyGenerator
  main_run,               \* a run of main() of diagnostic_main.py
  config_instance,        \* Config.instance, the singleton
  second_call             \* a further call of merge_data on the DataMerger

\* the DataMerger, its caller's frames and the call of merge_data
merger_vars == <<caller_left, caller_right, given, df_left, df_right,
                 left_prefix, right_prefix, on_keys_list, pc, return_type,
                 iteration, left_matched_indices, right_matched_indices,
                 matched_dfs, result, rounds>>

vars == <<merger_vars, lookup, key_generator, deduplicator, tsr_filters,
          derivone_key_generator, main_run, config_instance, second_call>>

\* an object that is not part of the run
Absent == [pc |-> "absent"]

\* what a step of the DataMerger leaves alone
not_merger == <<lookup, key_generator, deduplicator, tsr_filters,
                derivone_key_generator, main_run, config_instance,
                second_call>>

NoLookup == lookup = Absent

NoKeyGenerator == key_generator = Absent

NoDeduplicator == deduplicator = Absent

NoFilters == tsr_filters = Absent

NoDerivOneKeyGenerator == derivone_key_generator = Absent

NoMain == main_run = Absent

NoConfig == config_instance = Absent

NoSecondCall == second_call = Absent

\* a constructor that keeps the caller's frames as its working frames
WorksOnCallerFrames == FALSE

\* self.df_left = df_left.copy(), self.df_right = df_right.copy(): the
\* working frames are new objects, no write to them reaches the caller's
WorksOnCopies == TRUE

\* the caller's frame once the merger has made `written` of its working frame
CallerFrame(caller, written) == IF WorksOnCopies THEN caller ELSE written

\* DataMerger.__init__ on the frames of a caller; no other unit takes part
NewDataMerger ==
  \E ks \in InputKeys :
    /\ \E pf \in PrefixChoices, keys \in PriorityLists :
         /\ left_prefix = pf[1]
         /\ right_prefix = pf[2]
         /\ given = [left |-> LeftFrame(ks[1]), right |-> RightFrame(ks[2])]
         /\ df_left = [LeftFrame(ks[1]) EXCEPT
                         !.columns = AddPrefix(pf[1], left_columns)]
         /\ df_right = [RightFrame(ks[2]) EXCEPT
                          !.columns = AddPrefix(pf[2], right_columns)]
         /\ caller_left = CallerFrame(LeftFrame(ks[1]), df_left)
         /\ caller_right = CallerFrame(RightFrame(ks[2]), df_right)
         /\ on_keys_list =
              [i \in 1..Len(keys) |->
                 <<pf[1] \o keys[i][1], pf[2] \o keys[i][2]>>]
         /\ pc = "constructed"
         /\ return_type = "none"
         /\ iteration = 0
         /\ left_matched_indices = {}
         /\ right_matched_indices = {}
         /\ matched_dfs = <<>>
         /\ result = EmptyFrame
         /\ rounds = <<>>
         /\ NoLookup
         /\ NoKeyGenerator
         /\ NoDeduplicator
         /\ NoFilters
         /\ NoDerivOneKeyGenerator
         /\ NoMain
         /\ NoConfig

\* a DataMerger whose merge_data is called once
Init == NewDataMerger /\ NoSecondCall

(* ------------------------- _process_matches ---------------------------- *)
\* a merge without a key: every left row with every right row
MergeResultCross(temp_left, temp_right, keys) ==
  [k \in 1..(Len(temp_left.rows) * Len(temp_right.rows)) |->
     <<((k - 1) \div Len(temp_right.rows)) + 1,
       ((k - 1) % Len(temp_right.rows)) + 1>>]

\* pd.merge(left[[left_key]].reset_index(), right[[right_key]].reset_index(),
\* how='inner'): the (index_x, index_y) positions with equal keys, one row
\* per pair of a left and a right row with equal keys, in the order of the
\* left rows and, for one left row, of the right rows (the order pandas
\* documents for an inner merge; pandas before 2.2 grouped the rows by key)
MergeResult(temp_left, temp_right, keys) ==
  LET n == Len(temp_left.rows)
      m == Len(temp_right.rows)
      all == [k \in 1..(n * m) |-> <<((k - 1) \div m) + 1, ((k - 1) % m) + 1>>]
  IN SelectSeq(all, LAMBDA p : Value(temp_left, p[1], keys[1])
                                 = Value(temp_right, p[2], keys[2]))

\* series.duplicated().any()
AnyDuplicated(s) == \E i, j \in 1..Len(s) : i < j /\ s[i] = s[j]

IndexX(merge_result) == [i \in 1..Len(merge_result) |-> merge_result[i][1]]

IndexY(merge_result) == [i \in 1..Len(merge_result) |-> merge_result[i][2]]

\* a drop_duplicates that keeps, of the rows that share an index_x or an
\* index_y with an earlier row, none
DropDuplicatesPerSide(merge_result) ==
  LET kept == SelectSeq(Rows(Len(merge_result)),
                LAMBDA i : \A j \in 1..(i - 1) :
                   /\ merge_result[j][1] # merge_result[i][1]
                   /\ merge_result[j][2] # merge_result[i][2])
  IN [k \in 1..Len(kept) |-> merge_result[kept[k]]]

\* merge_result.drop_duplicates(subset=['index_x', 'index_y'], keep='first'):
\* a row goes when an earlier row has the same index_x AND the same index_y
DropDuplicates(merge_result) ==
  LET kept == SelectSeq(Rows(Len(merge_result)),
                LAMBDA i : \A j \in 1..(i - 1) :
                   ~(merge_result[j][1] = merge_result[i][1]
                     /\ merge_result[j][2] = merge_result[i][2]))
  IN [k \in 1..Len(kept) |-> merge_result[kept[k]]]

\* df.iloc[positions] followed by reset_index(drop=True)
ILoc(df, positions) ==
  [columns |-> df.columns,
   rows |-> [i \in 1..Len(positions) |-> df.rows[positions[i]]]]

\* returns (index_x.unique(), index_y.unique(), matched_data)
ProcessMatches(temp_left, temp_right, keys) ==
  LET merged == MergeResult(temp_left, temp_right, keys)
      merge_result ==
        IF AnyDuplicated(IndexX(merged)) \/ AnyDuplicated(IndexY(merged))
        THEN DropDuplicates(merged) ELSE merged
  IN IF merge_result # <<>>
     THEN [new_left |-> Range(IndexX(merge_result)),
           new_right |-> Range(IndexY(merge_result)),
           matched_df |->
             InsertFlag(ConcatColumns(ILoc(temp_left, IndexX(merge_result)),
                                      ILoc(temp_right, IndexY(merge_result))),
                        "matched")]
     ELSE [new_left |-> {}, new_right |-> {}, matched_df |-> EmptyFrame]

(* ----------------------------- merge_data ------------------------------ *)
\* a mask that forgets the matched labels
UnmatchedIndexAll(df, matched) ==
  SelectSeq(Rows(Len(df.rows)), LAMBDA i : TRUE)

\* the index labels of df not in matched, in row order:
\* df[~df.index.isin(matched)].index
UnmatchedIndex(df, matched) ==
  SelectSeq(Rows(Len(df.rows)), LAMBDA i : i \notin matched)

\* df[~df.index.isin(matched)].reset_index(drop=True)
Unmatched(df, matched) == ILoc(df, UnmatchedIndex(df, matched))

\* a merge_data that goes on with a return_type it does not know
MergeDataDefaulting(rt) ==
  /\ pc = "constructed"
  /\ return_type' = rt
  /\ pc' = "loop"
  /\ iteration' = 1
  /\ left_matched_indices' = {}
  /\ right_matched_indices' = {}
  /\ matched_dfs' = <<>>
  /\ UNCHANGED <<caller_left, caller_right, given, df_left, df_right,
                 left_prefix, right_prefix, on_keys_list, result, rounds>>
  /\ UNCHANGED not_merger

\* return_type is checked before anything else
MergeData(rt) ==
  /\ pc = "constructed"
  /\ return_type' = rt
  /\ IF rt \notin ReturnTypes
     THEN /\ pc' = "raised"
          /\ UNCHANGED <<iteration, left_matched_indices,
                         right_matched_indices, matched_dfs>>
     ELSE /\ pc' = "loop"
          /\ iteration' = 1
          /\ left_matched_indices' = {}
          /\ right_matched_indices' = {}
          /\ matched_dfs' = <<>>
  /\ UNCHANGED <<caller_left, caller_right, given, df_left, df_right,
                 left_prefix, right_prefix, on_keys_list, result, rounds>>
  /\ UNCHANGED not_merger

\* the for loop has no key pair left
LoopExhausted ==
  /\ pc = "loop"
  /\ iteration > Len(on_keys_list)
  /\ pc' = "assemble"
  /\ UNCHANGED <<caller_left, caller_right, given, df_left, df_right,
                 left_prefix, right_prefix, on_keys_list, return_type,
                 iteration, left_matched_indices, right_matched_indices,
                 matched_dfs, result, rounds>>
  /\ UNCHANGED not_merger

\* a break that waits until both sides have no unmatched record
NoUnmatchedOnBothSides(left_pool, right_pool) ==
  left_pool = <<>> /\ right_pool = <<>>

\* not left_unmatched_mask.any() or not right_unmatched_mask.any()
NoUnmatchedOnOneSide(left_pool, right_pool) ==
  left_pool = <<>> \/ right_pool = <<>>

\* one side has no unmatched record: break
LoopBreak ==
  /\ pc = "loop"
  /\ iteration <= Len(on_keys_list)
  /\ NoUnmatchedOnOneSide(UnmatchedIndex(df_left, left_matched_indices),
                          UnmatchedIndex(df_right, right_matched_indices))
  /\ pc' = "assemble"
  /\ UNCHANGED <<caller_left, caller_right, given, df_left, df_right,
                 left_prefix, right_prefix, on_keys_list, return_type,
                 iteration, left_matched_indices, right_matched_indices,
                 matched_dfs, result, rounds>>
  /\ UNCHANGED not_merger

\* a loop that walks the priority list from its end
CurrentKeysReversed == on_keys_list[Len(on_keys_list) - iteration + 1]

\* for iteration, keys in enumerate(self.on_keys_list, 1)
CurrentKeys == on_keys_list[iteration]

\* one pass of the loop body over the unmatched records; the working
\* frames have the columns the key pair names
LoopRound ==
  /\ pc = "loop"
  /\ iteration <= Len(on_keys_list)
  /\ \E left_pool \in {UnmatchedIndex(df_left, left_matched_indices)},
        right_pool \in {UnmatchedIndex(df_right, right_matched_indices)} :
       /\ ~NoUnmatchedOnOneSide(left_pool, right_pool)
       /\ CurrentKeys[1] \in Range(df_left.columns)
       /\ CurrentKeys[2] \in Range(df_right.columns)
       /\ \E pm \in {ProcessMatches(ILoc(df_left, left_pool),
                                     ILoc(df_right, right_pool),
                                     CurrentKeys)} :
            /\ IF pm.matched_df.rows # <<>>
               THEN /\ matched_dfs' = Append(matched_dfs, pm.matched_df)
                    /\ left_matched_indices' = left_matched_indices
                         \cup {left_pool[x] : x \in pm.new_left}
                    /\ right_matched_indices' = right_matched_indices
                         \cup {right_pool[y] : y \in pm.new_right}
               ELSE UNCHANGED <<matched_dfs, left_matched_indices,
                                right_matched_indices>>
            /\ rounds' = Append(rounds, [iteration |-> iteration,
                                         keys |-> CurrentKeys,
                                         left_pool |-> left_pool,
                                         right_pool |-> right_pool,
                                         matched_df |-> pm.matched_df])
  /\ iteration' = iteration + 1
  /\ UNCHANGED <<caller_left, caller_right, given, df_left, df_right,
                 left_prefix, right_prefix, on_keys_list, pc, return_type,
                 result>>
  /\ UNCHANGED not_merger

(* ------------------- merge_data: assembling the result ----------------- *)
\* left_unmatched with the right columns set to None, flagged 'left_only'
LeftOnlyFrame ==
  LET left_unmatched == Unmatched(df_left, left_matched_indices)
      right_empty ==
        [columns |-> AddPrefix(right_prefix, right_columns),
         rows |-> [i \in 1..Len(left_unmatched.rows) |->
                     [c \in 1..Len(right_columns) |-> "None"]]]
  IN InsertFlag(ConcatColumns(left_unmatched, right_empty), "left_only")

\* right_unmatched, flagged 'right_only'
RightOnlyFrame ==
  InsertFlag(Unmatched(df_right, right_matched_indices), "right_only")

\* the branch 'elif not result_dfs' of the left/full block returns at once
\* when no LEFT record is unmatched and nothing matched
ReturnsEarly ==
  /\ return_type \in {"left", "full"}
  /\ UnmatchedIndex(df_left, left_matched_indices) = <<>>
  /\ matched_dfs = <<>>

\* an early return that forgets the prefixes
EarlyEmptyFrameUnprefixed ==
  [columns |-> left_columns \o right_columns \o <<"matching_flag">>,
   rows |-> <<>>]

\* the frame that early return hands back
EarlyEmptyFrame ==
  [columns |-> AddPrefix(left_prefix, left_columns)
                 \o AddPrefix(right_prefix, right_columns)
                 \o <<"matching_flag">>,
   rows |-> <<>>]

\* result_dfs when the end of merge_data is reached
ResultDfs ==
  matched_dfs
  \o (IF return_type \in {"left", "full"}
         /\ UnmatchedIndex(df_left, left_matched_indices) # <<>>
      THEN <<LeftOnlyFrame>> ELSE <<>>)
  \o (IF return_type \in {"right", "full"}
         /\ UnmatchedIndex(df_right, right_matched_indices) # <<>>
      THEN <<RightOnlyFrame>> ELSE <<>>)

\* the frame handed back when result_dfs is empty
NoResultFrame ==
  [columns |-> left_columns \o right_columns \o <<"matching_flag">>,
   rows |-> <<>>]

\* return at 'elif not result_dfs': the columns are not restored
ReturnEarly ==
  /\ pc = "assemble"
  /\ ReturnsEarly
  /\ result' = EarlyEmptyFrame
  /\ pc' = "returned"
  /\ UNCHANGED <<caller_left, caller_right, given, df_left, df_right,
                 left_prefix, right_prefix, on_keys_list, return_type,
                 iteration, left_matched_indices, right_matched_indices,
                 matched_dfs, rounds>>
  /\ UNCHANGED not_merger

\* the column names are restored, nothing is to concatenate
ReturnNoResult ==
  /\ pc = "assemble"
  /\ ~ReturnsEarly
  /\ ResultDfs = <<>>
  /\ df_left' = [df_left EXCEPT !.columns = left_columns]
  /\ df_right' = [df_right EXCEPT !.columns = right_columns]
  /\ result' = NoResultFrame
  /\ caller_left' = CallerFrame(caller_left, df_left')
  /\ caller_right' = CallerFrame(caller_right, df_right')
  /\ pc' = "returned"
  /\ UNCHANGED <<given, left_prefix, right_prefix, on_keys_list, return_type,
                 iteration, left_matched_indices, right_matched_indices,
                 matched_dfs, rounds>>
  /\ UNCHANGED not_merger

\* the column names are restored, result_dfs is concatenated
ReturnResult ==
  /\ pc = "assemble"
  /\ ~ReturnsEarly
  /\ ResultDfs # <<>>
  /\ df_left' = [df_left EXCEPT !.columns = left_columns]
  /\ df_right' = [df_right EXCEPT !.columns = right_columns]
  /\ result' = Concat(ResultDfs)
  /\ caller_left' = CallerFrame(caller_left, df_left')
  /\ caller_right' = CallerFrame(caller_right, df_right')
  /\ pc' = "returned"
  /\ UNCHANGED <<given, left_prefix, right_prefix, on_keys_list, return_type,
                 iteration, left_matched_indices, right_matched_indices,
                 matched_dfs, rounds>>
  /\ UNCHANGED not_merger

Next ==
  \/ \E rt \in ReturnTypes \cup {"outer"} : MergeData(rt)
  \/ LoopExhausted
  \/ LoopBreak
  \/ LoopRound
  \/ ReturnEarly
  \/ ReturnNoResult
  \/ ReturnResult

Spec == Init /\ [][Next]_vars

(* ----------------- merge_data called again on the object --------------- *)
\* a DataMerger whose merge_data will be called twice
InitSecondCall ==
  /\ NewDataMerger
  /\ second_call = [pc |-> "first call", error |-> "none",
                    first |-> [return_type |-> "none", result |-> EmptyFrame,
                               left_matched_indices |-> {},
                               right_matched_indices |-> {}]]

\* merge_data(rt) is called after merge_data has returned: the locals start
\* afresh, self.df_left, self.df_right and self.on_keys_list are as the
\* first call left them
MergeDataAgain(rt) ==
  /\ pc = "returned"
  /\ second_call.pc = "first call"
  /\ second_call' =
       [second_call EXCEPT
          !.pc = "second call",
          !.first = [return_type |-> return_type, result |-> result,
                     left_matched_indices |-> left_matched_indices,
                     right_matched_indices |-> right_matched_indices]]
  /\ return_type' = rt
  /\ pc' = "loop"
  /\ iteration' = 1
  /\ left_matched_indices' = {}
  /\ right_matched_indices' = {}
  /\ matched_dfs' = <<>>
  /\ rounds' = <<>>
  /\ UNCHANGED <<caller_left, caller_right, given, df_left, df_right,
                 left_prefix, right_prefix, on_keys_list, result>>
  /\ UNCHANGED <<lookup, key_generator, deduplicator, tsr_filters,
                 derivone_key_generator, main_run, config_instance>>

\* _process_matches subscripts a working frame with a key column it does
\* not have: df_left[[left_key]] raises KeyError
ProcessMatchesRaises ==
  /\ pc = "loop"
  /\ iteration <= Len(on_keys_list)
  /\ ~NoUnmatchedOnOneSide(UnmatchedIndex(df_left, left_matched_indices),
                           UnmatchedIndex(df_right, right_matched_indices))
  /\ \/ CurrentKeys[1] \notin Range(df_left.columns)
     \/ CurrentKeys[2] \notin Range(df_right.columns)
  /\ pc' = "raised"
  /\ second_call' = [second_call EXCEPT !.error = "KeyError"]
  /\ UNCHANGED <<caller_left, caller_right, given, df_left, df_right,
                 left_prefix, right_prefix, on_keys_list, return_type,
                 iteration, left_matched_indices, right_matched_indices,
                 matched_dfs, result, rounds>>
  /\ UNCHANGED <<lookup, key_generator, deduplicator, tsr_filters,
                 derivone_key_generator, main_run, config_instance>>

NextSecondCall ==
  \/ Next
  \/ \E rt \in ReturnTypes : MergeDataAgain(rt)
  \/ ProcessMatchesRaises

SpecSecondCall == InitSecondCall /\ [][NextSecondCall]_vars

(* ======================================================================= *)
(* The units around the matcher.  Each is run on its own: its              *)
(* specification starts from the unit's inputs with no DataMerger built.   *)
(* ======================================================================= *)
\* no DataMerger is constructed
NoMerger ==
  /\ caller_left = EmptyFrame
  /\ caller_right = EmptyFrame
  /\ given = [left |-> EmptyFrame, right |-> EmptyFrame]
  /\ df_left = EmptyFrame
  /\ df_right = EmptyFrame
  /\ left_prefix = ""
  /\ right_prefix = ""
  /\ on_keys_list = <<>>
  /\ pc = "absent"
  /\ return_type = "none"
  /\ iteration = 0
  /\ left_matched_indices = {}
  /\ right_matched_indices = {}
  /\ matched_dfs = <<>>
  /\ result = EmptyFrame
  /\ rounds = <<>>

(* ----------- common/config/matching_keys_config.py --------------------- *)
\* the regulators of common/constants.py
Regulators ==
  {"CFTC", "SEC", "HKMA", "EMIR", "EMIR_REFIT", "SFTR", "MIFID", "ASIC",
   "MAS", "BOI", "JFSA", "CROSS"}

\* the asset classes of common/constants.py
AssetClasses ==
  {"CO", "CR", "EQ", "EQD", "EQS", "FX", "FXC", "FXO", "IR", "ETDACTIVITY",
   "ETDPOSITION", "COL"}

\* the dictionary matching_keys: regulator -> asset class or 'default' ->
\* ordered list of (left key, right key)
matching_keys_table ==
  [JFSA |->
     [default |->
        << <<"matching_key_uti", "matching_key_huti">>,
           <<"matching_key_uti", "matching_key_uti">>,
           <<"matching_key_uti", "matching_key_usi">>,
           <<"matching_key_uti", "matching_key_usi_value">>,
           <<"matching_key_uti", "matching_key_uti_value">> >>,
      IR |->
        << <<"matching_key_uti", "matching_key_huti">>,
           <<"matching_key_uti", "matching_key_uti">>,
           <<"matching_key_uti", "matching_key_usi">>,
           <<"matching_key_uti", "matching_key_usi_value">>,
           <<"matching_key_uti", "matching_key_uti_value">>,
           <<"matching_key_straddle_uti", "matching_key_huti">>,
           <<"matching_key_straddle_uti", "matching_key_uti">>,
           <<"matching_key_straddle_uti", "matching_key_usi">>,
           <<"matching_key_straddle_uti", "matching_key_usi_value">>,
           <<"matching_key_straddle_uti", "matching_key_uti_value">> >>],
   ASIC |->
     [default |->
        << <<"matching_key_uti", "matching_key_huti">>,
           <<"matching_key_uti", "matching_key_uti">>,
           <<"matching_key_uti", "matching_key_usi">> >>],
   MAS |->
     [default |->
        << <<"matching_key_uti", "matching_key_huti">>,
           <<"matching_key_uti", "matching_key_uti">>,
           <<"matching_key_uti", "matching_key_usi">> >>],
   EMIR_REFIT |->
     [default |->
        << <<"matching_key_uti", "matching_key_huti">>,
           <<"matching_key_uti", "matching_key_uti">>,
           <<"matching_key_uti", "matching_key_usi">> >>,
      IR |->
        << <<"matching_key_uti", "matching_key_huti">>,
           <<"matching_key_uti", "matching_key_uti">>,
           <<"matching_key_uti", "matching_key_usi">>,
           <<"matching_key_uti", "matching_key_huti_dir">>,
           <<"matching_key_uti", "matching_key_uti_dir">>,
           <<"matching_key_uti", "matching_key_usi_dir">> >>]]

\* {}
EmptyDict == [k \in {} |-> <<>>]

\* d.get(k, default)
DictGet(d, k, default) == IF k \in DOMAIN d THEN d[k] ELSE default

\* the truth value of an optional string: None and '' are false
Truthy(x) == x \notin {"None", ""}

\* a lookup that never reads the asset class
get_default_matching_keys(regulator, asset_class) ==
  DictGet(DictGet(matching_keys_table, regulator, EmptyDict), "default", <<>>)

get_matching_keys_for_regulator(regulator, asset_class) ==
  LET regulator_keys == DictGet(matching_keys_table, regulator, EmptyDict)
  IN IF Truthy(asset_class) /\ asset_class \in DOMAIN regulator_keys
     THEN regulator_keys[asset_class]
     ELSE DictGet(regulator_keys, "default", <<>>)

\* a caller is about to look up (regulator, asset_class); asset_class
\* defaults to None
InitLookup ==
  /\ NoMerger
  /\ NoKeyGenerator
  /\ NoDeduplicator
  /\ NoFilters
  /\ NoDerivOneKeyGenerator
  /\ NoMain
  /\ NoConfig
  /\ NoSecondCall
  /\ \E regulator \in Regulators, asset_class \in AssetClasses \cup {"None", ""} :
       lookup = [pc |-> "called", regulator |-> regulator,
                 asset_class |-> asset_class]

\* the call returns
LookupReturns ==
  /\ lookup.pc = "called"
  /\ lookup' = [pc |-> "returned", regulator |-> lookup.regulator,
                asset_class |-> lookup.asset_class,
                keys |-> get_matching_keys_for_regulator(lookup.regulator,
                                                         lookup.asset_class)]
  /\ UNCHANGED <<merger_vars, key_generator, deduplicator, tsr_filters,
                 derivone_key_generator, main_run, config_instance,
                 second_call>>

NextLookup == LookupReturns

SpecLookup == InitLookup /\ [][NextLookup]_vars

(* ----------- common/key_generation/tsr_key_generator.py ---------------- *)
\* JFSATSRKeyGenerator.required_columns for an asset class that is not an
\* equity one
required_columns ==
  <<"Counterparty 1 (reporting counterparty)",
    "Unique transaction identifier (UTI)">>

\* what a cell of a key-feeding column holds when the TSR is read: a null,
\* an empty or blank string, a padded lower-case value, a clean value
RawValues == {"NaN", "", "  ", " a1 ", "A1"}

\* fillna('').astype(str).str.strip().str.upper() on one value
CleanValue(v) ==
  CASE v = "NaN" -> ""
    [] v = "  " -> ""
    [] v = " a1 " -> "A1"
    [] v = " a-1 " -> "A-1"
    [] v = "sp" -> "SP"
    [] v = " s-v " -> "S-V"
    [] v = "up" -> "UP"
    [] v = " u-v " -> "U-V"
    [] v = "hp" -> "HP"
    [] v = " h-v " -> "H-V"
    [] v = "lei1" -> "LEI1"
    [] v = " c01 " -> "C01"
    [] v = "c99" -> "C99"
    [] OTHER -> v

\* df[name] = values
SetColumn(df, name, values) ==
  [columns |-> df.columns,
   rows |-> [i \in 1..Len(df.rows) |->
               [df.rows[i] EXCEPT ![ColPos(df.columns, name)] = values[i]]]]

\* "missing_place_holder_" + col + "_" + str(number)
Placeholder(col, number) ==
  "missing_place_holder_" \o col \o "_" \o ToString(number)

\* the TSR frames of at most MaxTsrRows rows over the required columns
TsrFrames ==
  {[columns |-> required_columns, rows |-> rows] :
     rows \in SeqsUpTo([1..Len(required_columns) -> RawValues], MaxTsrRows)}

\* TSRKeyGenerator.__init__ followed by the call of clean_columns
InitKeyGenerator ==
  /\ NoMerger
  /\ NoLookup
  /\ NoDeduplicator
  /\ NoFilters
  /\ NoDerivOneKeyGenerator
  /\ NoMain
  /\ NoConfig
  /\ NoSecondCall
  /\ \E data \in TsrFrames :
       key_generator = [pc |-> "clean_columns", data |-> data, raw |-> data,
                        required_columns |-> required_columns, col |-> 1]

\* one pass of 'for col in required_columns': the column is cleaned, then
\* every blank value gets the placeholder of a number drawn by
\* np.random.randint(0, len(self.data)), one draw per blank row
CleanColumn ==
  /\ key_generator.pc = "clean_columns"
  /\ key_generator.col <= Len(key_generator.required_columns)
  /\ \E col \in {key_generator.required_columns[key_generator.col]} :
     \E cleaned \in {[i \in 1..Len(key_generator.data.rows) |->
                        CleanValue(Value(key_generator.data, i, col))]} :
     \E mask \in {{i \in 1..Len(cleaned) : cleaned[i] = ""}} :
     \E drawn \in [mask -> 0..(Len(cleaned) - 1)] :
       key_generator' =
         [key_generator EXCEPT
            !.data = SetColumn(@, col,
                       [i \in 1..Len(cleaned) |->
                          IF i \in mask THEN Placeholder(col, drawn[i])
                          ELSE cleaned[i]]),
            !.col = @ + 1]
  /\ UNCHANGED <<merger_vars, lookup, deduplicator, tsr_filters,
                 derivone_key_generator, main_run, config_instance,
                 second_call>>

\* the loop is over: clean_columns returns
CleanColumnsReturns ==
  /\ key_generator.pc = "clean_columns"
  /\ key_generator.col > Len(key_generator.required_columns)
  /\ key_generator' = [key_generator EXCEPT !.pc = "cleaned"]
  /\ UNCHANGED <<merger_vars, lookup, deduplicator, tsr_filters,
                 derivone_key_generator, main_run, config_instance,
                 second_call>>

NextKeyGenerator == CleanColumn \/ CleanColumnsReturns

SpecKeyGenerator == InitKeyGenerator /\ [][NextKeyGenerator]_vars

(* ----------- common/scripts/derivone_deduplicator.py ------------------- *)
(* A DerivOne row is a record.  Its fields stand for the columns the       *)
(* deduplicator reads: huti_prefix and huti_value for the columns          *)
(* HARMONIZED_UTI_PREFIX and HARMONIZED_UTI_VALUE name for the asset       *)
(* class, lei for 'party1_lei_derived' (EQS) or the PARTY1_LEI column,     *)
(* uti_* and usi_* for 'UTI Prefix', 'UTI Value', 'USI Prefix' and         *)
(* 'USI Value'; trade_ref identifies the row.  The frame has the default   *)
(* index 0..n-1 of a frame read from a file.                               *)

\* the asset classes with a branch of their own, and one of the others
DedupAssetClasses == {"EQD", "EQS", "IR"}

\* (prefix, value) of the harmonized identifier: blank, populated, the
\* sentinel as value, the sentinel as prefix
HutiChoices ==
  {<<"NaN", "  ">>, <<"HP", " HV ">>, <<"HP", "nohutiprovided">>,
   <<"NOHUTIPROVIDED", "HV">>}

UtiChoices == {<<"NaN", "">>, <<"UP", "UV">>}

UsiChoices == {<<"", "NaN">>, <<"SP", "SV">>}

\* the LEI of party 1: blank or populated
LeiChoices == {"  ", "LEI1"}

\* the rows a DerivOne file can hold, but for trade_ref
DerivOneRows ==
  {[lei |-> lei, huti_prefix |-> h[1], huti_value |-> h[2],
    uti_prefix |-> u[1], uti_value |-> u[2],
    usi_prefix |-> s[1], usi_value |-> s[2]] :
     lei \in LeiChoices, h \in HutiChoices, u \in UtiChoices,
     s \in UsiChoices}

\* astype('string').fillna('').str.strip() on one value
Strip(v) ==
  CASE v = "NaN" -> ""
    [] v = "  " -> ""
    [] v = " HV " -> "HV"
    [] OTHER -> v

\* str.upper() on one value
Upper(v) == IF v = "nohutiprovided" THEN "NOHUTIPROVIDED" ELSE v

\* EQD: the six cleaned columns, concatenated
CombinedKey(row) ==
  Strip(row.huti_prefix) \o Strip(row.huti_value)
    \o Strip(row.uti_prefix) \o Strip(row.uti_value)
    \o Strip(row.usi_prefix) \o Strip(row.usi_value)

HutiIsEmpty(row) ==
  \/ Strip(row.huti_value) = ""
  \/ Upper(Strip(row.huti_value)) = "NOHUTIPROVIDED"
  \/ Upper(Strip(row.huti_prefix)) = "NOHUTIPROVIDED"

\* the other asset classes: LEI + HUTI, else LEI + USI, else LEI + UTI
PrioritizedKey(row) ==
  IF ~HutiIsEmpty(row)
  THEN Strip(row.lei) \o Strip(row.huti_prefix) \o Strip(row.huti_value)
  ELSE IF Strip(row.usi_value) # ""
  THEN Strip(row.lei) \o Strip(row.usi_prefix) \o Strip(row.usi_value)
  ELSE Strip(row.lei) \o Strip(row.uti_prefix) \o Strip(row.uti_value)

\* the key of a row before the placeholders are set
AssembledKey(asset_class, row) ==
  IF asset_class = "EQD" THEN CombinedKey(row) ELSE PrioritizedKey(row)

\* a numbering of the placeholders that starts again in every chunk
FirstPlaceholderOfChunk(start_idx) == 1

\* range(start_idx + 1, ...): the number of the first placeholder of the
\* chunk that starts at row start_idx
FirstPlaceholder(start_idx) == start_idx + 1

\* the keys of one chunk: the assembled key, or for the k-th empty one of
\* the chunk the placeholder numbered FirstPlaceholder(start_idx) + k - 1
ChunkKeys(asset_class, chunk, start_idx) ==
  LET assembled == [i \in 1..Len(chunk) |-> AssembledKey(asset_class, chunk[i])]
      nth(i) == Cardinality({j \in 1..i : assembled[j] = ""})
  IN [i \in 1..Len(chunk) |->
        IF assembled[i] = ""
        THEN "missing_placeholder"
               \o ToString(FirstPlaceholder(start_idx) + nth(i) - 1)
        ELSE assembled[i]]

\* the key values of this model in the order astype('category') gives the
\* categories (sorted as Python sorts strings), which is the order in which
\* groupby yields the groups
CategoryOrder ==
  <<"HPHV", "HPHVSPSV", "HPHVUPUV", "HPHVUPUVSPSV", "HPnohutiprovided",
    "HPnohutiprovidedSPSV", "HPnohutiprovidedUPUV",
    "HPnohutiprovidedUPUVSPSV", "LEI1", "LEI1HPHV", "LEI1SPSV", "LEI1UPUV",
    "NOHUTIPROVIDEDHV", "NOHUTIPROVIDEDHVSPSV", "NOHUTIPROVIDEDHVUPUV",
    "NOHUTIPROVIDEDHVUPUVSPSV", "SPSV", "UPUV", "UPUVSPSV",
    "missing_placeholder1", "missing_placeholder2", "missing_placeholder3",
    "missing_placeholder4", "missing_placeholder5", "missing_placeholder6",
    "missing_placeholder7", "missing_placeholder8", "missing_placeholder9">>

\* a groupby that keeps the last row of every group
LastIndex(data, key) ==
  CHOOSE i \in 1..Len(data) :
    /\ data[i].deduplication_key = key
    /\ \A j \in (i + 1)..Len(data) : data[j].deduplication_key # key

\* groupby('deduplication_key')['index'].first() for one key
FirstIndex(data, key) ==
  CHOOSE i \in 1..Len(data) :
    /\ data[i].deduplication_key = key
    /\ \A j \in 1..(i - 1) : data[j].deduplication_key # key

\* unique_indices: the first row of every key, in the order of the groups
UniqueIndices(data) ==
  LET observed ==
        SelectSeq(CategoryOrder,
                  LAMBDA k : \E i \in 1..Len(data) : data[i].deduplication_key = k)
  IN [n \in 1..Len(observed) |-> FirstIndex(data, observed[n])]

\* DerivOneDeduplicator.__init__ followed by the call of remove_duplicates,
\* which finds no 'deduplication_key' column and calls
\* create_deduplication_key
InitDeduplicator ==
  /\ NoMerger
  /\ NoLookup
  /\ NoKeyGenerator
  /\ NoFilters
  /\ NoDerivOneKeyGenerator
  /\ NoMain
  /\ NoConfig
  /\ NoSecondCall
  /\ \E asset_class \in DedupAssetClasses :
     \E rows \in SeqsUpTo(DerivOneRows, MaxDedupRows) :
       deduplicator =
         [pc |-> "create_deduplication_key",
          asset_class |-> asset_class,
          data |-> [i \in 1..Len(rows) |->
                      rows[i] @@ ("trade_ref" :> RightId(i))],
          start_idx |-> 0,
          dedup_keys |-> <<>>,
          keyed |-> <<>>]

\* one pass of 'for start_idx in range(0, total_rows, chunk_size)'
CreateKeyChunk ==
  /\ deduplicator.pc = "create_deduplication_key"
  /\ deduplicator.start_idx < Len(deduplicator.data)
  /\ \E end_idx \in {IF deduplicator.start_idx + chunk_size < Len(deduplicator.data)
                     THEN deduplicator.start_idx + chunk_size
                     ELSE Len(deduplicator.data)} :
       deduplicator' =
         [deduplicator EXCEPT
            !.dedup_keys =
               @ \o ChunkKeys(deduplicator.asset_class,
                              SubSeq(deduplicator.data,
                                     deduplicator.start_idx + 1, end_idx),
                              deduplicator.start_idx),
            !.start_idx = @ + chunk_size]
  /\ UNCHANGED <<merger_vars, lookup, key_generator, tsr_filters,
                 derivone_key_generator, main_run, config_instance,
                 second_call>>

\* the loop is over: the keys become the column 'deduplication_key'
CreateKeyReturns ==
  /\ deduplicator.pc = "create_deduplication_key"
  /\ deduplicator.start_idx >= Len(deduplicator.data)
  /\ \E keyed \in {[i \in 1..Len(deduplicator.data) |->
                      deduplicator.data[i]
                        @@ ("deduplication_key" :> deduplicator.dedup_keys[i])]} :
       deduplicator' = [deduplicator EXCEPT !.pc = "remove_duplicates",
                                            !.data = keyed,
                                            !.keyed = keyed]
  /\ UNCHANGED <<merger_vars, lookup, key_generator, tsr_filters,
                 derivone_key_generator, main_run, config_instance,
                 second_call>>

\* self.data.iloc[unique_indices], reset_index(drop=True), return
RemoveDuplicates ==
  /\ deduplicator.pc = "remove_duplicates"
  /\ \E unique_indices \in {UniqueIndices(deduplicator.data)} :
       deduplicator' =
         [deduplicator EXCEPT
            !.pc = "returned",
            !.data = [n \in 1..Len(unique_indices) |->
                        deduplicator.data[unique_indices[n]]]]
  /\ UNCHANGED <<merger_vars, lookup, key_generator, tsr_filters,
                 derivone_key_generator, main_run, config_instance,
                 second_call>>

NextDeduplicator == CreateKeyChunk \/ CreateKeyReturns \/ RemoveDuplicates

SpecDeduplicator == InitDeduplicator /\ [][NextDeduplicator]_vars

(* ----------- common/data_ingestion/data_filters.py --------------------- *)
(* TSRFilters keeps the frame it is given (self.data = data, no copy) and  *)
(* tags it in place; the frame its constructor leaves in self.data is the  *)
(* filtered one.  A TSR frame here has the trade's UTI and the columns the *)
(* predicates of its regime read.                                          *)

\* regime as the callers pass it; TSRFilters upper-cases it
RegimeChoices == {"JFSA", "ASIC", "MAS", "EMIR_REFIT", "CFTC", "jfsa"}

\* asset_class as the callers pass it; TSRFilters upper-cases it
FilterAssetClasses == {"EQD", "EQS", "eqd", "FX", "FXC", "FXO", "IR"}

\* str.upper() on a regime or an asset class
UpperName(x) ==
  CASE x = "jfsa" -> "JFSA"
    [] x = "eqd" -> "EQD"
    [] OTHER -> x

\* the columns segregate_eq_trades reads for a regime
EqColumns(regime) ==
  CASE regime = "ASIC" -> <<"UTI", "Contract Type", "Direction 1">>
    [] regime = "MAS" -> <<"UTI", "Contract Type", "Direction">>
    [] regime = "EMIR_REFIT"
         -> <<"UTI", "Contract type", "Product classification">>
    [] OTHER -> <<"UTI", "Asset Class", "Contract type">>

\* the columns segregate_fx_trades reads for a regime
FxColumns(regime) ==
  CASE regime \in {"ASIC", "MAS"} -> <<"UTI", "Asset Class", "Contract Type">>
    [] regime = "EMIR_REFIT"
         -> <<"UTI", "Product Classification", "Contract Type">>
    [] OTHER -> <<"UTI", "Asset Class", "Contract type">>

\* the values a TSR holds in a column the predicates read
ColumnValues(name) ==
  CASE name = "Asset Class" -> {"EQUI", "CURR"}
    [] name \in {"Contract type", "Contract Type"}
         -> {"OPTN", "OTHR", "SWAP", "FORW", "CFDS"}
    [] name \in {"Direction", "Direction 1"} -> {"NaN", "  ", "BYER"}
    [] name = "Product classification" -> {"SEMVXC", "SESTXC"}
    [] name = "Product Classification" -> {"NaN", "JFTXFP"}

\* the TSR frames of at most MaxFilterRows rows with the columns cols
FilterFrames(cols) ==
  {[columns |-> cols,
    rows |-> [i \in 1..Len(vals) |-> <<LeftId(i)>> \o vals[i]]] :
     vals \in SeqsUpTo({<<a, b>> : a \in ColumnValues(cols[2]),
                                   b \in ColumnValues(cols[3])},
                       MaxFilterRows)}

\* Series.str.strip() on one value; a null stays a null
StrStrip(v) == IF v = "  " THEN "" ELSE v

\* a segregation that has a rule for every regime
HasSegregationLogicAlways(regime) == TRUE

\* the regimes the if/elif chains have a branch for
HasSegregationLogic(regime) ==
  regime \in {"JFSA", "ASIC", "MAS", "EMIR_REFIT"}

\* eqd_condition for row i
EqdCondition(regime, df, i) ==
  CASE regime = "ASIC"
         -> \/ Value(df, i, "Contract Type") \in {"OTHR", "OPTN"}
            \/ /\ Value(df, i, "Contract Type") = "SWAP"
               /\ Value(df, i, "Direction 1") # "NaN"
               /\ StrStrip(Value(df, i, "Direction 1")) # ""
    [] regime = "MAS"
         -> \/ Value(df, i, "Contract Type") \in {"OTHR", "OPTN"}
            \/ /\ Value(df, i, "Contract Type") = "SWAP"
               /\ Value(df, i, "Direction") # "NaN"
               /\ StrStrip(Value(df, i, "Direction")) # ""
    [] regime = "EMIR_REFIT"
         -> \/ Value(df, i, "Contract type") \in {"OPTN", "OTHR"}
            \/ Value(df, i, "Product classification")
                 \in {"SEMVXC", "SESLXC", "SEILXC", "SESVXC", "SEMLXC",
                      "SEMDXC", "SESDXC", "SEBVXC", "SEIDXC", "SEBLXC",
                      "SEIVXC"}
    [] OTHER
         -> /\ Value(df, i, "Asset Class") = "EQUI"
            /\ Value(df, i, "Contract type") \in {"OPTN", "OTHR"}

\* an eqs_condition that asks for a swap or a forward in every regime
EqsConditionSwapsOnly(regime, df, i) ==
  /\ ~EqdCondition(regime, df, i)
  /\ \E c \in {"Contract type", "Contract Type"} \cap Range(df.columns) :
       Value(df, i, c) \in {"SWAP", "FORW"}

\* eqs_condition for row i
EqsCondition(regime, df, i) ==
  IF regime \in {"ASIC", "MAS", "EMIR_REFIT"}
  THEN ~EqdCondition(regime, df, i)
  ELSE /\ Value(df, i, "Asset Class") = "EQUI"
       /\ Value(df, i, "Contract type") \in {"SWAP", "FORW"}

\* 'TBD', then 'EQS' where eqs_condition, then 'EQD' where eqd_condition
EqTag(regime, df, i) ==
  IF EqdCondition(regime, df, i) THEN "EQD"
  ELSE IF EqsCondition(regime, df, i) THEN "EQS"
  ELSE "TBD"

\* df with the column name added, holding tags[i] in row i
AddColumn(df, name, tags) ==
  [columns |-> Append(df.columns, name),
   rows |-> [i \in 1..Len(df.rows) |-> Append(df.rows[i], tags[i])]]

\* a filter that returns the rows tagged with the run's own subclass only
KeptByRunTaggedOnly(asset_class, tag) == tag = asset_class

\* the subclass filter of the return statements: an EQS run keeps what is
\* not 'EQD', any other run what is not 'EQS'
KeptByRun(asset_class, tag) ==
  IF asset_class = "EQS" THEN tag # "EQD" ELSE tag # "EQS"

\* TSRFilters.__init__ up to the dispatch on the asset class
InitFilters ==
  /\ NoMerger
  /\ NoLookup
  /\ NoKeyGenerator
  /\ NoDeduplicator
  /\ NoDerivOneKeyGenerator
  /\ NoMain
  /\ NoConfig
  /\ NoSecondCall
  /\ \E regime \in RegimeChoices, asset_class \in FilterAssetClasses :
     \E data \in FilterFrames(IF UpperName(asset_class) \in {"FX", "FXC", "FXO"}
                              THEN FxColumns(UpperName(regime))
                              ELSE EqColumns(UpperName(regime))) :
       tsr_filters = [pc |-> "init",
                      regime |-> UpperName(regime),
                      asset_class |-> UpperName(asset_class),
                      given |-> data,
                      passed |-> data,
                      data |-> data,
                      error |-> "none"]

\* self.data = self.segregate_eq_trades()
SegregateEqTrades ==
  /\ tsr_filters.pc = "init"
  /\ tsr_filters.asset_class \in {"EQD", "EQS"}
  /\ IF ~HasSegregationLogic(tsr_filters.regime)
     THEN tsr_filters' = [tsr_filters EXCEPT !.pc = "raised",
                                             !.error = "ValueError"]
     ELSE \E tagged \in
            {AddColumn(tsr_filters.passed, "EQ_Secondary_Asset_Class",
                       [i \in 1..Len(tsr_filters.passed.rows) |->
                          EqTag(tsr_filters.regime, tsr_filters.passed, i)])} :
            tsr_filters' =
              [tsr_filters EXCEPT
                 !.pc = "constructed",
                 !.passed = tagged,
                 !.data =
                    ILoc(tagged,
                         SelectSeq(Rows(Len(tagged.rows)),
                           LAMBDA i :
                             KeptByRun(tsr_filters.asset_class,
                                       Value(tagged, i,
                                             "EQ_Secondary_Asset_Class"))))]
  /\ UNCHANGED <<merger_vars, lookup, key_generator, deduplicator,
                 derivone_key_generator, main_run, config_instance,
                 second_call>>

\* self.data = self.segregate_fx_trades(): for a regime with a branch,
\* self.data.loc['FX_Secondary_Asset_Class'] = 'TBD' appends a ROW of that
\* label holding 'TBD' in every column, and the next statement,
\* self.data[fxc_condition, 'FX_Secondary_Asset_Class'] = 'FXC', asks for the
\* column named by a tuple that holds a Series, which get_loc rejects
\* (InvalidIndexError; TypeError in older pandas)
SegregateFxTrades ==
  /\ tsr_filters.pc = "init"
  /\ tsr_filters.asset_class \in {"FX", "FXO", "FXC"}
  /\ IF ~HasSegregationLogic(tsr_filters.regime)
     THEN tsr_filters' = [tsr_filters EXCEPT !.pc = "raised",
                                             !.error = "ValueError"]
     ELSE tsr_filters' =
            [tsr_filters EXCEPT
               !.pc = "raised",
               !.error = "InvalidIndexError",
               !.passed.rows =
                  Append(@, [c \in 1..Len(tsr_filters.passed.columns) |-> "TBD"]),
               !.data.rows =
                  Append(@, [c \in 1..Len(tsr_filters.passed.columns) |-> "TBD"])]
  /\ UNCHANGED <<merger_vars, lookup, key_generator, deduplicator,
                 derivone_key_generator, main_run, config_instance,
                 second_call>>

\* any other asset class: the frame is kept as it is
NoSegregation ==
  /\ tsr_filters.pc = "init"
  /\ tsr_filters.asset_class \notin {"EQD", "EQS", "FX", "FXO", "FXC"}
  /\ tsr_filters' = [tsr_filters EXCEPT !.pc = "constructed"]
  /\ UNCHANGED <<merger_vars, lookup, key_generator, deduplicator,
                 derivone_key_generator, main_run, config_instance,
                 second_call>>

NextFilters == SegregateEqTrades \/ SegregateFxTrades \/ NoSegregation

SpecFilters == InitFilters /\ [][NextFilters]_vars

(* ----------- key generation: validate, clean, generate ----------------- *)
(* diagnostic_main.process_tsr builds the TSR key generator of the regime  *)
(* and calls validate_columns, clean_columns(required_columns) and         *)
(* generate_keys in that order.  DerivOneKeyGenerator validates and cleans *)
(* in its constructor; generate_keys is called on the constructed object.  *)
(* A frame here is a frame of the matcher: columns and rows of cells.      *)

\* the regimes with a TSR key generator of their own
TsrRegimes == {"JFSA", "ASIC", "MAS", "EMIR_REFIT"}

\* the two equity asset classes, the one with a straddle key, one other
KeyAssetClasses == {"EQD", "EQS", "IR", "FX"}

\* the reporting-counterparty column as each generator names it
CounterpartyColumn(regime) ==
  CASE regime = "JFSA" -> "Counterparty 1 (reporting counterparty)"
    [] regime = "ASIC" -> "Counterparty 1"
    [] regime = "MAS" -> "Counterparty 1"
    [] regime = "EMIR_REFIT" -> "Counterparty 1 (Reporting counterparty)"

\* the UTI column as each generator names it
UtiColumn(regime) ==
  CASE regime = "JFSA" -> "Unique transaction identifier (UTI)"
    [] regime = "ASIC" -> "Unique transaction identifier"
    [] regime = "MAS" -> "Unique transaction identifier (UTI)"
    [] regime = "EMIR_REFIT" -> "UTI"

\* self.required_columns as every __init__ sets it: the test names
\* EQUITY_DERIVATIVES twice
RequiredColumns(regime, asset_class) ==
  IF asset_class \in {"EQD", "EQD"}
  THEN <<UtiColumn(regime)>>
  ELSE <<CounterpartyColumn(regime), UtiColumn(regime)>>

\* the columns generate_keys subscripts self.data with, in the order it
\* reads them (the straddle key reads the same two again)
ReadColumns(regime, asset_class) ==
  IF asset_class \in {"EQD", "EQS"}
  THEN <<UtiColumn(regime)>>
  ELSE <<CounterpartyColumn(regime), UtiColumn(regime)>>

\* [col for col in self.required_columns if col not in self.data.columns]
MissingColumns(required, df) ==
  SelectSeq(required, LAMBDA col : col \notin Range(df.columns))

\* a subscript that yields blanks for a column the frame does not have
ColumnOrBlanks(df, col) ==
  [error |-> "none",
   values |-> [i \in 1..Len(df.rows) |->
                 IF col \in Range(df.columns) THEN Value(df, i, col)
                 ELSE ""]]

\* self.data[col]: the values of the column, or KeyError
Column(df, col) ==
  IF col \in Range(df.columns)
  THEN [error |-> "none",
        values |-> [i \in 1..Len(df.rows) |-> Value(df, i, col)]]
  ELSE [error |-> "KeyError", values |-> <<>>]

\* what a cell of a TSR file holds: a null, a padded lower-case value with
\* punctuation, a clean value
TsrCells == {"NaN", " a-1 ", "B2"}

\* the frames a TSR file can hold: any of the two key-feeding columns may
\* be absent from the file
TsrKeyFrames(regime) ==
  UNION {{[columns |-> cols, rows |-> rows] :
            rows \in SeqsUpTo([1..Len(cols) -> TsrCells], MaxTsrKeyRows)} :
           cols \in {<<CounterpartyColumn(regime), UtiColumn(regime)>>,
                     <<CounterpartyColumn(regime)>>, <<UtiColumn(regime)>>,
                     <<>>}}

\* (column, number) of a placeholder value, <<>> for any other value; the
\* placeholders are made of the names of the cleaned columns
PlaceholderParts(v) ==
  LET names == UNION {{CounterpartyColumn(r), UtiColumn(r)} :
                        r \in TsrRegimes}
      parts == {cn \in names \X (0..MaxTsrRows) :
                  v = Placeholder(cn[1], cn[2])}
  IN IF parts = {} THEN <<>> ELSE CHOOSE cn \in parts : TRUE

\* pattern.sub('', x).upper() with pattern [^a-zA-Z0-9], on a column name
AlnumUpperName(col) ==
  CASE col = "Counterparty 1 (reporting counterparty)"
         -> "COUNTERPARTY1REPORTINGCOUNTERPARTY"
    [] col = "Counterparty 1 (Reporting counterparty)"
         -> "COUNTERPARTY1REPORTINGCOUNTERPARTY"
    [] col = "Counterparty 1" -> "COUNTERPARTY1"
    [] col = "Unique transaction identifier (UTI)"
         -> "UNIQUETRANSACTIONIDENTIFIERUTI"
    [] col = "Unique transaction identifier" -> "UNIQUETRANSACTIONIDENTIFIER"
    [] col = "UTI" -> "UTI"

\* pattern.sub('', x).upper() on a cleaned value or a part of one; it works
\* character by character, so the key of a concatenation is the
\* concatenation of the keys of its parts
AlnumUpper(v) ==
  IF PlaceholderParts(v) # <<>>
  THEN "MISSINGPLACEHOLDER" \o AlnumUpperName(PlaceholderParts(v)[1])
         \o ToString(PlaceholderParts(v)[2])
  ELSE CASE v = "A-1" -> "A1"
         [] v = "A-" -> "A"
         [] OTHER -> v

\* .str[:-1] on a cleaned value followed by pattern.sub('', x).upper(): the
\* last character is dropped; a placeholder number has one digit
AlnumUpperButLast(v) ==
  IF PlaceholderParts(v) # <<>>
  THEN "MISSINGPLACEHOLDER" \o AlnumUpperName(PlaceholderParts(v)[1])
  ELSE CASE v = "A-1" -> AlnumUpper("A-")
         [] v = "B2" -> "B"
         [] v = "" -> ""

\* new_columns of a TSR generate_keys, as a frame: matching_key_uti from the
\* UTI alone for the equity asset classes and from counterparty + UTI
\* otherwise; matching_key_straddle_uti for interest rates, which
\* EMIR_REFITTSRKeyGenerator does not build
TsrNewColumns(regime, asset_class, df) ==
  LET n == Len(df.rows)
      uti == Column(df, UtiColumn(regime)).values
      cp == Column(df, CounterpartyColumn(regime)).values
      matching_key_uti ==
        [i \in 1..n |->
           IF asset_class \in {"EQD", "EQS"} THEN AlnumUpper(uti[i])
           ELSE AlnumUpper(cp[i]) \o AlnumUpper(uti[i])]
      straddle ==
        [i \in 1..n |-> AlnumUpper(cp[i]) \o AlnumUpperButLast(uti[i])]
  IN IF asset_class = "IR" /\ regime # "EMIR_REFIT"
     THEN [columns |-> <<"matching_key_uti", "matching_key_straddle_uti">>,
           rows |-> [i \in 1..n |-> <<matching_key_uti[i], straddle[i]>>]]
     ELSE [columns |-> <<"matching_key_uti">>,
           rows |-> [i \in 1..n |-> <<matching_key_uti[i]>>]]

\* the generator is constructed on a TSR frame; validate_columns is next
InitTsrKeys ==
  /\ NoMerger
  /\ NoLookup
  /\ NoDeduplicator
  /\ NoFilters
  /\ NoDerivOneKeyGenerator
  /\ NoMain
  /\ NoConfig
  /\ NoSecondCall
  /\ \E regime \in TsrRegimes, asset_class \in KeyAssetClasses :
     \E data \in TsrKeyFrames(regime) :
       key_generator =
         [pc |-> "validate_columns", regime |-> regime,
          asset_class |-> asset_class, data |-> data, raw |-> data,
          required_columns |-> RequiredColumns(regime, asset_class),
          col |-> 1, error |-> "none", read |-> <<>>]

\* validate_columns: KeyError when a required column is missing
ValidateColumns ==
  /\ key_generator.pc = "validate_columns"
  /\ key_generator' =
       IF MissingColumns(key_generator.required_columns,
                         key_generator.data) # <<>>
       THEN [key_generator EXCEPT !.pc = "raised", !.error = "KeyError"]
       ELSE [key_generator EXCEPT !.pc = "clean_columns"]
  /\ UNCHANGED <<merger_vars, lookup, deduplicator, tsr_filters,
                 derivone_key_generator, main_run, config_instance,
                 second_call>>

\* generate_keys: a subscript with a column the frame lacks raises KeyError
\* before new_columns is joined to self.data; else the key columns are
\* joined by pd.concat(axis=1)
GenerateKeys ==
  /\ key_generator.pc = "cleaned"
  /\ \E read \in {ReadColumns(key_generator.regime,
                              key_generator.asset_class)} :
       key_generator' =
         IF \E c \in 1..Len(read) :
              Column(key_generator.data, read[c]).error = "KeyError"
         THEN [key_generator EXCEPT !.pc = "raised", !.error = "KeyError",
                                    !.read = read]
         ELSE [key_generator EXCEPT
                 !.pc = "returned", !.read = read,
                 !.data = ConcatColumns(@,
                            TsrNewColumns(key_generator.regime,
                                          key_generator.asset_class, @))]
  /\ UNCHANGED <<merger_vars, lookup, deduplicator, tsr_filters,
                 derivone_key_generator, main_run, config_instance,
                 second_call>>

(* ----------- common/key_generation/derivone_key_generator.py ----------- *)
\* HARMONIZED_UTI_PREFIX.get(asset_class)
huti_prefix_col(asset_class) ==
  CASE asset_class = "EQD" -> "HUTI LEI"
    [] asset_class = "EQS" -> "HUTI Prefix"
    [] OTHER -> "Harmonized UTI Prefix"

\* HARMONIZED_UTI_VALUE.get(asset_class)
huti_value_col(asset_class) ==
  CASE asset_class = "EQD" -> "HUTI suffix"
    [] asset_class = "EQS" -> "HUTI Value"
    [] OTHER -> "Harmonized UTI Value"

\* PARTY1_LEI.get(asset_class) for the asset classes that use it
party1_lei_col(asset_class) == "MS Legal Entity LEI"

\* the six identifier columns
IdentifierColumns(asset_class) ==
  <<"USI Prefix", "USI Value", "UTI Prefix", "UTI Value",
    huti_prefix_col(asset_class), huti_value_col(asset_class)>>

\* self.required_columns as __init__ builds it
DerivOneRequiredColumns(asset_class) ==
  IdentifierColumns(asset_class) \o
    (CASE asset_class = "EQS" -> <<"BookingEntity">>
       [] asset_class = "EQD" -> <<>>
       [] OTHER -> <<party1_lei_col(asset_class)>>)

\* the columns generate_keys subscripts self.data with: the required ones
\* and, for interest rates, 'Direction'
DerivOneReadColumns(asset_class) ==
  DerivOneRequiredColumns(asset_class) \o
    (IF asset_class = "IR" THEN <<"Direction">> ELSE <<>>)

\* which identifiers a row carries: none, the UTI alone, all three
IdentifierPatterns == {"blank", "uti", "all"}

\* the LEI or the booking entity of a row
PartyChoices(asset_class) ==
  CASE asset_class = "EQS" -> {" c01 ", "c99"}
    [] asset_class = "EQD" -> {"NaN"}
    [] OTHER -> {"NaN", "lei1"}

DirectionChoices(asset_class) ==
  IF asset_class = "IR" THEN {" pay", "Receive", "NaN"} ELSE {"NaN"}

\* the raw cell of a column in a row of the file
RawCell(col, pattern, party, direction) ==
  CASE col = "USI Prefix" -> IF pattern = "all" THEN "sp" ELSE "NaN"
    [] col = "USI Value" -> IF pattern = "all" THEN " s-v " ELSE "  "
    [] col = "UTI Prefix" -> IF pattern = "blank" THEN "NaN" ELSE "up"
    [] col = "UTI Value" -> IF pattern = "blank" THEN "" ELSE " u-v "
    [] col \in {"HUTI LEI", "HUTI Prefix", "Harmonized UTI Prefix"}
         -> IF pattern = "all" THEN "hp" ELSE "NaN"
    [] col \in {"HUTI suffix", "HUTI Value", "Harmonized UTI Value"}
         -> IF pattern = "all" THEN " h-v " ELSE "NaN"
    [] col = "Direction" -> direction
    [] OTHER -> party

\* the rows a DerivOne file of the asset class can hold, over cols
DerivOneFileRows(asset_class, cols) ==
  {[c \in 1..Len(cols) |-> RawCell(cols[c], pattern, party, direction)] :
     pattern \in IdentifierPatterns, party \in PartyChoices(asset_class),
     direction \in DirectionChoices(asset_class)}

\* the DerivOne frames: at most MaxDerivOneRows rows, at most one of the
\* columns generate_keys reads absent from the file
DerivOneFrames(asset_class) ==
  UNION {{[columns |-> cols, rows |-> rows] :
            rows \in SeqsUpTo(DerivOneFileRows(asset_class, cols),
                              MaxDerivOneRows)} :
           cols \in {SelectSeq(DerivOneReadColumns(asset_class),
                                LAMBDA col : col # absent) :
                       absent \in {"none"} \cup
                                  Range(DerivOneReadColumns(asset_class))}}

\* company_code_lei_mapping of common/config/ms_entity_mappings.py, a dict
\* from company code to LEI; one mapped code stands for its entries
company_code_lei_mapping == [C01 |-> "LEIC01"]

\* Series.map(company_code_lei_mapping) followed by fillna('')
MsEntityLei(code) ==
  IF code = "C01" THEN company_code_lei_mapping.C01 ELSE ""

\* np.where(contains('PAY'), 'P', np.where(contains('REC'), 'R', '')), case
\* ignored, a null counting as no match
DirectionSuffix(v) ==
  CASE v = " pay" -> "P"
    [] v = "Receive" -> "R"
    [] OTHER -> ""

\* str.replace('[^A-Z0-9]', '', regex=True).str.upper() on a cleaned value
\* (upper case already); character by character, as AlnumUpper
StripNonAlnum(v) ==
  CASE v = "S-V" -> "SV"
    [] v = "U-V" -> "UV"
    [] v = "H-V" -> "HV"
    [] OTHER -> v

\* new_columns of DerivOneKeyGenerator.generate_keys, as a frame
DerivOneNewColumns(asset_class, df) ==
  LET n == Len(df.rows)
      cell(i, col) == StripNonAlnum(Column(df, col).values[i])
      lead(i) ==
        CASE asset_class = "EQS"
               -> StripNonAlnum(
                    MsEntityLei(Column(df, "BookingEntity").values[i]))
          [] asset_class = "EQD" -> ""
          [] OTHER -> cell(i, party1_lei_col(asset_class))
      usi(i) == lead(i) \o cell(i, "USI Prefix") \o cell(i, "USI Value")
      uti(i) == lead(i) \o cell(i, "UTI Prefix") \o cell(i, "UTI Value")
      huti(i) == lead(i) \o cell(i, huti_prefix_col(asset_class))
                   \o cell(i, huti_value_col(asset_class))
      usi_value(i) == lead(i) \o cell(i, "USI Value")
      uti_value(i) == lead(i) \o cell(i, "UTI Value")
      dir(i) == DirectionSuffix(Column(df, "Direction").values[i])
      keys == <<"matching_key_usi", "matching_key_uti", "matching_key_huti",
                "matching_key_usi_value", "matching_key_uti_value">>
      base(i) == <<usi(i), uti(i), huti(i), usi_value(i), uti_value(i)>>
  IN CASE asset_class = "EQS"
            -> [columns |-> <<"ms_entity_lei">> \o keys,
                rows |-> [i \in 1..n |-> <<lead(i)>> \o base(i)]]
       [] asset_class = "IR"
            -> [columns |-> keys \o <<"matching_key_huti_dir",
                                      "matching_key_uti_dir",
                                      "matching_key_usi_dir">>,
                rows |-> [i \in 1..n |->
                            base(i) \o <<huti(i) \o dir(i), uti(i) \o dir(i),
                                         usi(i) \o dir(i)>>]]
       [] OTHER -> [columns |-> keys, rows |-> [i \in 1..n |-> base(i)]]

\* DerivOneKeyGenerator.__init__ up to 'self.data = data'
InitDerivOneKeys ==
  /\ NoMerger
  /\ NoLookup
  /\ NoKeyGenerator
  /\ NoDeduplicator
  /\ NoFilters
  /\ NoMain
  /\ NoConfig
  /\ NoSecondCall
  /\ \E asset_class \in KeyAssetClasses :
     \E data \in DerivOneFrames(asset_class) :
       derivone_key_generator =
         [pc |-> "validate_columns", asset_class |-> asset_class,
          required_columns |-> DerivOneRequiredColumns(asset_class),
          data |-> data, raw |-> data, error |-> "none"]

\* validate_columns, called by __init__
DerivOneValidateColumns ==
  /\ derivone_key_generator.pc = "validate_columns"
  /\ derivone_key_generator' =
       IF MissingColumns(derivone_key_generator.required_columns,
                         derivone_key_generator.data) # <<>>
       THEN [derivone_key_generator EXCEPT !.pc = "raised",
                                           !.error = "KeyError"]
       ELSE [derivone_key_generator EXCEPT !.pc = "clean_columns"]
  /\ UNCHANGED <<merger_vars, lookup, key_generator, deduplicator,
                 tsr_filters, main_run, config_instance, second_call>>

\* one cleaned column after the other, over the required columns
RECURSIVE CleanColumns(_, _)
CleanColumns(df, cols) ==
  IF cols = <<>> THEN df
  ELSE CleanColumns(SetColumn(df, Head(cols),
                              [i \in 1..Len(df.rows) |->
                                 CleanValue(Value(df, i, Head(cols)))]),
                    Tail(cols))

\* clean_columns, called by __init__: blanks stay blank
DerivOneCleanColumns ==
  /\ derivone_key_generator.pc = "clean_columns"
  /\ derivone_key_generator' =
       [derivone_key_generator EXCEPT
          !.pc = "constructed",
          !.data = CleanColumns(@, derivone_key_generator.required_columns)]
  /\ UNCHANGED <<merger_vars, lookup, key_generator, deduplicator,
                 tsr_filters, main_run, config_instance, second_call>>

\* generate_keys: KeyError from a subscript with an absent column, raised
\* before new_columns is joined; else self.data gets the key columns
DerivOneGenerateKeys ==
  /\ derivone_key_generator.pc = "constructed"
  /\ \E read \in {DerivOneReadColumns(derivone_key_generator.asset_class)} :
       derivone_key_generator' =
         IF \E c \in 1..Len(read) :
              Column(derivone_key_generator.data, read[c]).error = "KeyError"
         THEN [derivone_key_generator EXCEPT !.pc = "raised",
                                             !.error = "KeyError"]
         ELSE [derivone_key_generator EXCEPT
                 !.pc = "returned",
                 !.data = ConcatColumns(@,
                            DerivOneNewColumns(
                              derivone_key_generator.asset_class, @))]
  /\ UNCHANGED <<merger_vars, lookup, key_generator, deduplicator,
                 tsr_filters, main_run, config_instance, second_call>>

InitKeyGeneration == InitTsrKeys \/ InitDerivOneKeys

NextKeyGeneration ==
  \/ ValidateColumns
  \/ CleanColumn
  \/ CleanColumnsReturns
  \/ GenerateKeys
  \/ DerivOneValidateColumns
  \/ DerivOneCleanColumns
  \/ DerivOneGenerateKeys

SpecKeyGeneration == InitKeyGeneration /\ [][NextKeyGeneration]_vars

(* --------------------- diagnostic_main.py: main ------------------------ *)
\* asset classes of a run: two that are matched with DerivOne, and the
\* collateral one, which process_asset_class handles without DerivOne
MainAssetClasses == {"IR", "EQD", "COL"}

\* the sequences of at most n different members of S
DistinctSeqs(S, n) ==
  {s \in SeqsUpTo(S, n) :
     \A i, j \in 1..Len(s) : i # j => s[i] # s[j]}

\* main() is entered: asset_classes is the list asked for, tsr_filepaths
\* holds a file list for some of them
InitMain ==
  /\ NoMerger
  /\ NoLookup
  /\ NoKeyGenerator
  /\ NoDeduplicator
  /\ NoFilters
  /\ NoDerivOneKeyGenerator
  /\ NoConfig
  /\ NoSecondCall
  /\ \E asset_classes \in DistinctSeqs(MainAssetClasses, MaxAssetClasses)
                            \ {<<>>},
        with_tsr_file \in SUBSET MainAssetClasses :
       main_run = [pc |-> "check_tsr_files",
                   requested |-> asset_classes,
                   asset_classes |-> asset_classes,
                   tsr_filepaths |-> with_tsr_file \cap Range(asset_classes),
                   n |-> 0,
                   successful_asset_classes |-> <<>>,
                   failed_asset_classes |-> <<>>,
                   exited_in |-> "none"]

\* 'if len(asset_classes) == 1: ... else: ...': a single asset class
\* without a TSR file ends the program; of several, those without a TSR file
\* leave the list and join failed_asset_classes
CheckTsrFiles ==
  /\ main_run.pc = "check_tsr_files"
  /\ \E invalid_asset_classes \in
          {SelectSeq(main_run.asset_classes,
                     LAMBDA a : a \notin main_run.tsr_filepaths)} :
       main_run' =
         IF Len(main_run.asset_classes) = 1
         THEN IF invalid_asset_classes # <<>>
              THEN [main_run EXCEPT !.pc = "exited",
                                    !.exited_in = "check_tsr_files"]
              ELSE [main_run EXCEPT !.pc = "read_gleif"]
         ELSE [main_run EXCEPT
                 !.pc = "read_gleif",
                 !.asset_classes =
                    SelectSeq(@, LAMBDA a : a \in main_run.tsr_filepaths),
                 !.failed_asset_classes = @ \o invalid_asset_classes]
  /\ UNCHANGED <<merger_vars, lookup, key_generator, deduplicator,
                 tsr_filters, derivone_key_generator, config_instance,
                 second_call>>

\* the GLEIF file is read; validate_file_existence ends the program when
\* the file is not there
ReadGleif ==
  /\ main_run.pc = "read_gleif"
  /\ \E gleif_file_exists \in BOOLEAN :
       main_run' =
         IF gleif_file_exists
         THEN [main_run EXCEPT !.pc = "loop", !.n = 1]
         ELSE [main_run EXCEPT !.pc = "exited", !.exited_in = "read_gleif"]
  /\ UNCHANGED <<merger_vars, lookup, key_generator, deduplicator,
                 tsr_filters, derivone_key_generator, config_instance,
                 second_call>>

\* what process_asset_class does for an asset class: it returns a frame
\* with rows, returns None or a frame without rows, raises an Exception, or,
\* in process_derivone, finds no DerivOne file and calls sys.exit(1)
Outcomes(asset_class) ==
  {"data", "no data", "Exception"} \cup
    (IF asset_class = "COL" THEN {} ELSE {"sys.exit"})

\* one pass of 'for asset_class in asset_classes': the except clause is
\* 'except Exception', which SystemExit (a BaseException) passes through
ProcessAssetClass ==
  /\ main_run.pc = "loop"
  /\ main_run.n <= Len(main_run.asset_classes)
  /\ \E asset_class \in {main_run.asset_classes[main_run.n]} :
     \E outcome \in Outcomes(asset_class) :
       main_run' =
         CASE outcome = "data"
                -> [main_run EXCEPT
                      !.n = @ + 1,
                      !.successful_asset_classes = Append(@, asset_class)]
           [] outcome = "sys.exit"
                -> [main_run EXCEPT !.pc = "exited",
                                    !.exited_in = "process_derivone"]
           [] OTHER
                -> [main_run EXCEPT
                      !.n = @ + 1,
                      !.failed_asset_classes = Append(@, asset_class)]
  /\ UNCHANGED <<merger_vars, lookup, key_generator, deduplicator,
                 tsr_filters, derivone_key_generator, config_instance,
                 second_call>>

\* the list is exhausted: the summary is logged and main returns
LoopEnds ==
  /\ main_run.pc = "loop"
  /\ main_run.n > Len(main_run.asset_classes)
  /\ main_run' = [main_run EXCEPT !.pc = "returned"]
  /\ UNCHANGED <<merger_vars, lookup, key_generator, deduplicator,
                 tsr_filters, derivone_key_generator, config_instance,
                 second_call>>

NextMain == CheckTsrFiles \/ ReadGleif \/ ProcessAssetClass \/ LoopEnds

SpecMain == InitMain /\ [][NextMain]_vars

(* ----------- common/config/args_config.py: Config ---------------------- *)
\* the arguments of a call Config(...): "None" is the default of a
\* parameter that is not given
ConfigArgs ==
  [env : {"None", "qa", "prod"},
   regime : {"None", "jfsa", "asic"},
   run_date : {"None", "2024-01-01", "2024-01-02"},
   use_case_name : {"None", "diagnostic_pandq"}]

\* Config.instance = None
NoInstance == [env |-> "no instance", regime |-> "no instance",
               run_date |-> "no instance", use_case_name |-> "no instance"]

\* the class is loaded: Config.instance is None
InitConfig ==
  /\ NoMerger
  /\ NoLookup
  /\ NoKeyGenerator
  /\ NoDeduplicator
  /\ NoFilters
  /\ NoDerivOneKeyGenerator
  /\ NoMain
  /\ NoSecondCall
  /\ config_instance = [pc |-> "loaded", instance |-> NoInstance,
                        before |-> NoInstance,
                        args |-> [env |-> "None", regime |-> "None",
                                  run_date |-> "None",
                                  use_case_name |-> "None"]]

\* Config.__init__: the first call builds the instance from its arguments;
\* a later call sets env, regime and use_case_name when they are truthy,
\* and run_date when regime is truthy
ConfigCall ==
  /\ config_instance.pc \in {"loaded", "called"}
  /\ \E args \in ConfigArgs :
       config_instance' =
         [pc |-> "called",
          before |-> config_instance.instance,
          args |-> args,
          instance |->
            IF config_instance.instance = NoInstance
            THEN args
            ELSE [env |-> IF Truthy(args.env) THEN args.env
                          ELSE config_instance.instance.env,
                  regime |-> IF Truthy(args.regime) THEN args.regime
                             ELSE config_instance.instance.regime,
                  run_date |-> IF Truthy(args.regime) THEN args.run_date
                               ELSE config_instance.instance.run_date,
                  use_case_name |->
                     IF Truthy(args.use_case_name) THEN args.use_case_name
                     ELSE config_instance.instance.use_case_name]]
  /\ UNCHANGED <<merger_vars, lookup, key_generator, deduplicator,
                 tsr_filters, derivone_key_generator, main_run, second_call>>

NextConfig == ConfigCall

SpecConfig == InitConfig /\ [][NextConfig]_vars

(* ====================== reading a result frame ========================= *)
\* the identifying values of the records, by index label
LeftIds == SubSeq([i \in 1..MaxLeft |-> LeftId(i)], 1, MaxLeft)

RightIds == SubSeq([i \in 1..MaxRight |-> RightId(i)], 1, MaxRight)

\* the column names of the two frames under each pair of prefixes
PrefixedColumns ==
  [pf \in PrefixChoices |->
     [left |-> AddPrefix(pf[1], left_columns),
      right |-> AddPrefix(pf[2], right_columns)]]

\* the column names of the working frames while matching, and in a result
LeftNames == PrefixedColumns[<<left_prefix, right_prefix>>].left

RightNames == PrefixedColumns[<<left_prefix, right_prefix>>].right

\* the identifying columns as they are named in a result
LeftIdCol == LeftNames[1]

RightIdCol == RightNames[1]

\* the cell at position c of a row, NaN for position 0 (no such column)
At(row, c) == IF c = 0 THEN "NaN" ELSE row[c]

\* the positions in df of the columns cols, 0 for a column df lacks
Positions(df, cols) ==
  SubSeq([c \in 1..Len(cols) |-> ColPos(df.columns, cols[c])], 1, Len(cols))

\* the cells of a row at the positions pos
Picked(row, pos) ==
  SubSeq([c \in 1..Len(pos) |-> At(row, pos[c])], 1, Len(pos))

\* a cell of df, NaN when df has no such column
Cell(df, p, name) ==
  IF ColPos(df.columns, name) = 0 THEN "NaN" ELSE Value(df, p, name)

\* the row positions of df flagged flag
FlagRows(df, flag) ==
  UNION {{p \in 1..Len(df.rows) : At(df.rows[p], fpos) = flag} :
           fpos \in {ColPos(df.columns, "matching_flag")}}

\* the (left id, right id) pairs of the rows of df flagged 'matched'
MatchedPairs(df) ==
  UNION {{<<At(df.rows[p], pos[1]), At(df.rows[p], pos[2])>> :
            p \in FlagRows(df, "matched")} :
           pos \in {Positions(df, <<LeftIdCol, RightIdCol>>)}}

\* df has a matched row joining LEFT record l and RIGHT record r
IsMatchedRow(df, l, r) == <<LeftIds[l], RightIds[r]>> \in MatchedPairs(df)

\* the number of rows flagged 'matched' that hold LEFT record l / RIGHT record r
MatchedRowsOfLeft(df, l) ==
  Cardinality({p \in FlagRows(df, "matched") : Cell(df, p, LeftIdCol) = LeftIds[l]})

MatchedRowsOfRight(df, r) ==
  Cardinality({p \in FlagRows(df, "matched") : Cell(df, p, RightIdCol) = RightIds[r]})

\* the working frames under the names they have while matching
MatchingLeft == [df_left EXCEPT !.columns = LeftNames]

MatchingRight == [df_right EXCEPT !.columns = RightNames]

\* LEFT record l and RIGHT record r have equal values under the key pair keys
KeysEqual(l, r, keys) ==
  df_left.rows[l][ColPos(LeftNames, keys[1])]
    = df_right.rows[r][ColPos(RightNames, keys[2])]

\* the same with the places of the two key columns found beforehand
KeyPlaces(keys) == <<ColPos(LeftNames, keys[1]), ColPos(RightNames, keys[2])>>

EqualAt(l, r, places) ==
  df_left.rows[l][places[1]] = df_right.rows[r][places[2]]

LeftLabels == 1..Len(df_left.rows)

RightLabels == 1..Len(df_right.rows)

\* the column set the specification gives every result
ExpectedColumns ==
  Range(LeftNames) \cup Range(RightNames) \cup {"matching_flag"}

(* ============================== claims ================================= *)

\* C1: in the result of merge_data every LEFT record is in at most one row
\* flagged 'matched' and every RIGHT record is in at most one such row, also
\* when a key value occurs on several rows of one side.
C1_NoDoubleMatching ==
  pc = "returned" =>
    /\ \A l \in LeftLabels : MatchedRowsOfLeft(result, l) <= 1
    /\ \A r \in RightLabels : MatchedRowsOfRight(result, r) <= 1

\* C2: with return_type 'full', |left_only| + |matched| = |LEFT| and
\* |right_only| + |matched| = |RIGHT|, an empty LEFT or RIGHT included.
C2_Completeness ==
  (pc = "returned" /\ return_type = "full") =>
    /\ Cardinality(FlagRows(result, "left_only"))
         + Cardinality(FlagRows(result, "matched")) = Len(df_left.rows)
    /\ Cardinality(FlagRows(result, "right_only"))
         + Cardinality(FlagRows(result, "matched")) = Len(df_right.rows)

\* L could match r2 only under a key pair later than it
OnlyLater(l, r2, it) ==
  /\ \E j \in (it + 1)..Len(on_keys_list) : KeysEqual(l, r2, on_keys_list[j])
  /\ \A j \in 1..it : ~KeysEqual(l, r2, on_keys_list[j])

Candidates(rnd) ==
  LET n == Len(rnd.left_pool)
      m == Len(rnd.right_pool)
      all == [k \in 1..(n * m) |->
                <<rnd.left_pool[((k - 1) \div m) + 1],
                  rnd.right_pool[((k - 1) % m) + 1]>>]
  IN SelectSeq(all, LAMBDA c : KeysEqual(c[1], c[2], on_keys_list[rnd.iteration]))

\* the candidates the fan-out policy keeps: the first pairing of each left
\* id and of each right id
FirstPairings(cands) ==
  {cands[i] : i \in {i \in 1..Len(cands) :
     \A j \in 1..(i - 1) : cands[j][1] # cands[i][1] /\ cands[j][2] # cands[i][2]}}

\* the LEFT / RIGHT records all of whose pairings the policy drops in a round
DroppedLeft(rnd) ==
  {c[1] : c \in Range(Candidates(rnd))}
    \ {c[1] : c \in FirstPairings(Candidates(rnd))}

DroppedRight(rnd) ==
  {c[2] : c \in Range(Candidates(rnd))}
    \ {c[2] : c \in FirstPairings(Candidates(rnd))}

\* the (left, right) label pairs of the rows of a round's matched frame
RoundPairs(rnd) ==
  LET matched == MatchedPairs(rnd.matched_df)
  IN {pr \in Range(rnd.left_pool) \X Range(rnd.right_pool) :
        <<LeftIds[pr[1]], RightIds[pr[2]]>> \in matched}

\* C4: within one key-pair round only the first pairing (by row order of the
\* remaining pools) is kept for each left id and each right id: every row of
\* the round's matched frame is the first candidate pairing of its LEFT and
\* of its RIGHT record, no record is in two rows, and the first candidate
\* is kept.  Two LEFT rows K1 and one RIGHT row K1 give one matched row.
C4_FirstPairingKept ==
  \A k \in 1..Len(rounds) :
    LET cands == Candidates(rounds[k])
        pairs == RoundPairs(rounds[k])
    IN /\ pairs \subseteq FirstPairings(cands)
       /\ Len(rounds[k].matched_df.rows) = Cardinality(pairs)
       /\ cands # <<>> => cands[1] \in pairs

\* C5: a record whose candidate pairing is dropped by the fan-out policy in
\* round i is matched by no later key pair and is reported unmatched
\* (left_only / right_only) in the final result.
C5_DroppedNotRetried ==
  pc = "returned" =>
    \A k \in 1..Len(rounds) :
      /\ \A l \in DroppedLeft(rounds[k]) :
           /\ MatchedRowsOfLeft(result, l) = 0
           /\ return_type \in {"left", "full"} =>
                \E p \in FlagRows(result, "left_only") :
                  Cell(result, p, LeftIdCol) = LeftIds[l]
      /\ \A r \in DroppedRight(rounds[k]) :
           /\ MatchedRowsOfRight(result, r) = 0
           /\ return_type \in {"right", "full"} =>
                \E p \in FlagRows(result, "right_only") :
                  Cell(result, p, RightIdCol) = RightIds[r]

\* the index labels of the LEFT / RIGHT records in a round's matched frame
RoundLeft(rnd) == {pr[1] : pr \in RoundPairs(rnd)}

RoundRight(rnd) == {pr[2] : pr \in RoundPairs(rnd)}

\* C6: cross-round exclusion.  A LEFT or RIGHT record matched under key pair
\* i is in the pool of no later key pair, and so no record is in the matched
\* frames of two rounds.
C6_CrossRoundExclusion ==
  \A k2 \in 2..Len(rounds) :
    \A k \in 1..(k2 - 1) :
      /\ RoundLeft(rounds[k]) \cap Range(rounds[k2].left_pool) = {}
      /\ RoundRight(rounds[k]) \cap Range(rounds[k2].right_pool) = {}
      /\ RoundLeft(rounds[k]) \cap RoundLeft(rounds[k2]) = {}
      /\ RoundRight(rounds[k]) \cap RoundRight(rounds[k2]) = {}

\* C6 witness: a RIGHT record matched in the first round has an equal key,
\* under the second round's pair, with a LEFT record of the second round's
\* pool, and the second round leaves it alone.
C6_Witness ==
  /\ Len(rounds) = 2
  /\ \E r \in RoundRight(rounds[1]), l \in Range(rounds[2].left_pool) :
       /\ KeysEqual(l, r, on_keys_list[rounds[2].iteration])
       /\ r \notin Range(rounds[2].right_pool)
       /\ r \notin RoundRight(rounds[2])

\* the rows of a frame as (flag, left id, right id)
RowKeys(df) ==
  {<<Cell(df, p, "matching_flag"), Cell(df, p, LeftIdCol),
     Cell(df, p, RightIdCol)>> : p \in 1..Len(df.rows)}

\* the three groups of rows merge_data classifies the records into
MatchedGroup ==
  UNION {{<<"matched", LeftIds[pr[1]], RightIds[pr[2]]>> : pr \in RoundPairs(rounds[k])}
           : k \in 1..Len(rounds)}

LeftOnlyGroup ==
  {<<"left_only", LeftIds[l], "None">> : l \in LeftLabels \ left_matched_indices}

RightOnlyGroup ==
  {<<"right_only", "NaN", RightIds[r]>> : r \in RightLabels \ right_matched_indices}

\* the matched pairs of the cascade over the priority list from pair it on,
\* computed from the inputs alone
RECURSIVE CascadePairs(_, _, _)
CascadePairs(it, lm, rm) ==
  LET left_pool == UnmatchedIndex(df_left, lm)
      right_pool == UnmatchedIndex(df_right, rm)
  IN IF it > Len(on_keys_list) \/ left_pool = <<>> \/ right_pool = <<>>
     THEN {}
     ELSE LET pm == ProcessMatches(ILoc(MatchingLeft, left_pool),
                                   ILoc(MatchingRight, right_pool),
                                   on_keys_list[it])
              found == {<<left_pool[x], right_pool[y]>> :
                          <<x, y>> \in
                            {pr \in pm.new_left \X pm.new_right :
                               KeysEqual(left_pool[pr[1]], right_pool[pr[2]],
                                         on_keys_list[it])}}
          IN found \cup CascadePairs(it + 1,
                                     lm \cup {pr[1] : pr \in found},
                                     rm \cup {pr[2] : pr \in found})

\* C7: merge_data returns the matched rows plus every left_only row for
\* 'left', the matched rows plus every right_only row for 'right', the
\* matched rows for 'inner' and all three groups for 'full'; the matched
\* pairs are those of the full cascade whatever the return type.
C7_ReturnTypeShapes ==
  pc = "returned" =>
    /\ RowKeys(result) =
         MatchedGroup
           \cup (IF return_type \in {"left", "full"} THEN LeftOnlyGroup ELSE {})
           \cup (IF return_type \in {"right", "full"} THEN RightOnlyGroup ELSE {})
    /\ {<<rk[2], rk[3]>> : rk \in {x \in RowKeys(result) : x[1] = "matched"}}
         = {<<LeftIds[pr[1]], RightIds[pr[2]]>> : pr \in CascadePairs(1, {}, {})}

\* C8: for every return type and every input the column set of the result is
\* the prefixed LEFT columns, the prefixed RIGHT columns and matching_flag.
C8_SchemaStable ==
  pc = "returned" => Range(result.columns) = ExpectedColumns

\* C9: an empty LEFT against a non-empty RIGHT with return_type 'left'
\* raises no error and returns zero rows under exactly the prefixed LEFT
\* columns, the prefixed RIGHT columns and matching_flag.
C9_EmptyLeftSchema ==
  (Len(df_left.rows) = 0 /\ Len(df_right.rows) > 0 /\ return_type = "left") =>
    /\ pc # "raised"
    /\ pc = "returned" =>
         /\ result.rows = <<>>
         /\ Range(result.columns) = ExpectedColumns
         /\ Len(result.columns) = Cardinality(ExpectedColumns)

\* C9 witness: such a call has returned, with prefixes that change the names.
C9_Witness ==
  /\ pc = "returned"
  /\ Len(df_left.rows) = 0
  /\ Len(df_right.rows) > 0
  /\ return_type = "left"
  /\ left_prefix # ""
  /\ right_prefix # ""
  /\ result.rows = <<>>

\* C10: on every return path of merge_data the working LEFT and RIGHT frames
\* carry their original, unprefixed column names when the call returns.
C10_ColumnsRestored ==
  pc = "returned" =>
    /\ df_left.columns = left_columns
    /\ df_right.columns = right_columns

C12_InvalidReturnTypeRaises ==
  (pc # "constructed" /\ return_type \notin ReturnTypes)
    => /\ pc = "raised"
       /\ rounds = <<>>
       /\ matched_dfs = <<>>
       /\ result = EmptyFrame

\* merge_data('outer') raised on frames that have records to match
C12_Witness ==
  /\ pc = "raised"
  /\ return_type = "outer"
  /\ on_keys_list # <<>>
  /\ \E l \in LeftLabels, r \in RightLabels : KeysEqual(l, r, on_keys_list[1])

(* C13: the k-th round of the loop tries the k-th key pair of the priority *)
(* list, a round runs only while both pools of unmatched records are       *)
(* non-empty, the loop ends only when the list is exhausted or a pool is   *)
(* empty, and so no more rounds run than the list has key pairs.           *)
C13_LoopOrderAndBreak ==
  /\ Len(rounds) <= Len(on_keys_list)
  /\ \A k \in 1..Len(rounds) :
       /\ rounds[k].iteration = k
       /\ rounds[k].keys = on_keys_list[k]
       /\ rounds[k].left_pool # <<>>
       /\ rounds[k].right_pool # <<>>
  /\ pc = "loop" => iteration = Len(rounds) + 1
  /\ pc \in {"assemble", "returned"}
       => \/ Len(rounds) = Len(on_keys_list)
          \/ UnmatchedIndex(df_left, left_matched_indices) = <<>>
          \/ UnmatchedIndex(df_right, right_matched_indices) = <<>>

\* the loop stopped after the first of two key pairs: a pool ran empty
C13_Witness ==
  /\ pc = "returned"
  /\ Len(on_keys_list) = 2
  /\ Len(rounds) = 1
  /\ rounds[1].matched_df.rows # <<>>

(* C14: get_matching_keys_for_regulator returns the list of the asset      *)
(* class where the regulator's table has one, the regulator's 'default'    *)
(* list otherwise (also for asset_class None), and the empty list for a    *)
(* regulator with no table.                                                *)
C14_LookupFallsBackToDefault ==
  lookup.pc = "returned" =>
    LET r == lookup.regulator
        a == lookup.asset_class
        overrides == {<<"JFSA", "IR">>, <<"EMIR_REFIT", "IR">>}
        tabled == {"JFSA", "ASIC", "MAS", "EMIR_REFIT"}
    IN /\ <<r, a>> \in overrides
            => /\ lookup.keys = matching_keys_table[r][a]
               /\ lookup.keys # matching_keys_table[r]["default"]
       /\ (r \in tabled /\ <<r, a>> \notin overrides)
            => /\ lookup.keys = matching_keys_table[r]["default"]
               /\ lookup.keys # <<>>
       /\ r \notin tabled => lookup.keys = <<>>

\* the lookup for JFSA interest rates returned the ten pairs of its own list
C14_Witness ==
  /\ lookup.pc = "returned"
  /\ lookup.regulator = "JFSA"
  /\ lookup.asset_class = "IR"
  /\ Len(lookup.keys) = 10
  /\ lookup.keys[6][1] = "matching_key_straddle_uti"

\* the rows of the raw frame whose value in column col is null or blank
BlankRows(col) ==
  {i \in 1..Len(key_generator.raw.rows) :
     CleanValue(Value(key_generator.raw, i, col)) = ""}

(* C15: when clean_columns has returned, no two rows that were blank in a  *)
(* key-feeding column hold the same placeholder in that column.            *)
C15_PlaceholdersUnique ==
  key_generator.pc = "cleaned" =>
    \A c \in 1..Len(required_columns) :
      \A i, j \in BlankRows(required_columns[c]) :
        i # j => Value(key_generator.data, i, required_columns[c])
                   # Value(key_generator.data, j, required_columns[c])

\* the keys of a DerivOne frame
KeysOf(data) == {data[i].deduplication_key : i \in 1..Len(data)}

(* C16: the deduplicated frame holds, for every key of the keyed frame,    *)
(* exactly one row, that row is the earliest row of the keyed frame with   *)
(* the key, and it holds no key the keyed frame does not have.             *)
C16_FirstRowPerKey ==
  deduplicator.pc = "returned" =>
    LET keyed == deduplicator.keyed
        out == deduplicator.data
    IN /\ KeysOf(out) = KeysOf(keyed)
       /\ \A m, n \in 1..Len(out) :
            m # n => out[m].deduplication_key # out[n].deduplication_key
       /\ \A n \in 1..Len(out) :
            \E i \in 1..Len(keyed) :
              /\ out[n] = keyed[i]
              /\ \A j \in 1..(i - 1) :
                   keyed[j].deduplication_key # keyed[i].deduplication_key

\* two rows had the same key and the first one alone was returned
C16_Witness ==
  /\ deduplicator.pc = "returned"
  /\ Len(deduplicator.keyed) = 2
  /\ deduplicator.keyed[1].deduplication_key
       = deduplicator.keyed[2].deduplication_key
  /\ deduplicator.keyed[1] # deduplicator.keyed[2]
  /\ deduplicator.data = <<deduplicator.keyed[1]>>

\* the rows of the keyed frame whose assembled key is empty
EmptyKeyRows ==
  {i \in 1..Len(deduplicator.keyed) :
     AssembledKey(deduplicator.asset_class, deduplicator.keyed[i]) = ""}

(* C17: every row whose assembled key is empty gets a key no other row of  *)
(* the batch has, whatever chunk the rows are in, and is still in the      *)
(* frame remove_duplicates returns.                                        *)
C17_BlankKeysStayApart ==
  deduplicator.pc \in {"remove_duplicates", "returned"} =>
    \A i \in EmptyKeyRows :
      /\ deduplicator.keyed[i].deduplication_key # ""
      /\ \A j \in 1..Len(deduplicator.keyed) :
           j # i => deduplicator.keyed[j].deduplication_key
                      # deduplicator.keyed[i].deduplication_key
      /\ deduplicator.pc = "returned"
           => \E n \in 1..Len(deduplicator.data) :
                deduplicator.data[n] = deduplicator.keyed[i]

\* two rows with empty keys, in two chunks, were both returned
C17_Witness ==
  /\ deduplicator.pc = "returned"
  /\ EmptyKeyRows = {1, 2}
  /\ 0 \div chunk_size # 1 \div chunk_size
  /\ Len(deduplicator.data) = 2

\* the identifier C18 makes the key of: the harmonized one when its value
\* is not empty and neither its value nor its prefix is the sentinel, else
\* the secondary, else the tertiary
IdentifierByPriority(row) ==
  IF Strip(row.huti_value) # ""
     /\ "NOHUTIPROVIDED" \notin {Upper(Strip(row.huti_value)),
                                 Upper(Strip(row.huti_prefix))}
  THEN Strip(row.huti_prefix) \o Strip(row.huti_value)
  ELSE IF Strip(row.usi_value) # ""
  THEN Strip(row.usi_prefix) \o Strip(row.usi_value)
  ELSE Strip(row.uti_prefix) \o Strip(row.uti_value)

(* C18: for every asset class the assembled key of a row is made of one    *)
(* identifier only, chosen by priority: the harmonized identifier when its *)
(* value is neither empty nor NOHUTIPROVIDED, else the secondary, else the *)
(* tertiary (the LEI of party 1 may precede it).                           *)
C18_KeyFromOneIdentifier ==
  deduplicator.pc \in {"remove_duplicates", "returned"} =>
    \A i \in 1..Len(deduplicator.keyed) :
      LET row == deduplicator.keyed[i]
          key == AssembledKey(deduplicator.asset_class, row)
      IN key \in {IdentifierByPriority(row),
                  Strip(row.lei) \o IdentifierByPriority(row)}

\* C18 read for the asset classes other than EQD only
C18_KeyFromOneIdentifierButEQD ==
  deduplicator.asset_class # "EQD" => C18_KeyFromOneIdentifier

(* C19: when equity segregation has run, for a supported regulator and for *)
(* an EQS run as for an EQD run, every input row that satisfies neither    *)
(* predicate is tagged TBD and is a row of the frame the filter returns.   *)
C19_UnclassifiedRowsRetained ==
  (tsr_filters.pc = "constructed" /\ tsr_filters.asset_class \in {"EQD", "EQS"})
    => \A i \in 1..Len(tsr_filters.given.rows) :
         (/\ ~EqdCondition(tsr_filters.regime, tsr_filters.given, i)
          /\ ~EqsCondition(tsr_filters.regime, tsr_filters.given, i))
           => /\ Value(tsr_filters.passed, i, "EQ_Secondary_Asset_Class") = "TBD"
              /\ \E n \in 1..Len(tsr_filters.data.rows) :
                   tsr_filters.data.rows[n]
                     = tsr_filters.given.rows[i] \o <<"TBD">>

\* an EQD run for JFSA returned an unclassified row and dropped a swap
C19_Witness ==
  /\ tsr_filters.pc = "constructed"
  /\ tsr_filters.regime = "JFSA"
  /\ tsr_filters.asset_class = "EQD"
  /\ Len(tsr_filters.given.rows) = 2
  /\ Len(tsr_filters.data.rows) = 1
  /\ Value(tsr_filters.data, 1, "EQ_Secondary_Asset_Class") = "TBD"
  /\ Value(tsr_filters.data, 1, "Asset Class") = "CURR"

(* C20: for a regulator that has no predicate table, equity and FX         *)
(* segregation end in a ValueError: no row is tagged or filtered by a      *)
(* default rule, and the frame is as it was passed, without the            *)
(* classification column.                                                  *)
C20_UnsupportedRegimeRaises ==
  (/\ tsr_filters.pc \notin {"absent", "init"}
   /\ tsr_filters.asset_class \in {"EQD", "EQS", "FX", "FXO", "FXC"}
   /\ tsr_filters.regime \notin {"JFSA", "ASIC", "MAS", "EMIR_REFIT"})
    => /\ tsr_filters.pc = "raised"
       /\ tsr_filters.error = "ValueError"
       /\ tsr_filters.passed = tsr_filters.given
       /\ tsr_filters.data = tsr_filters.given

\* equity segregation for CFTC raised on a frame of two rows
C20_Witness ==
  /\ tsr_filters.pc = "raised"
  /\ tsr_filters.regime = "CFTC"
  /\ tsr_filters.asset_class = "EQS"
  /\ Len(tsr_filters.given.rows) = 2
  /\ tsr_filters.error = "ValueError"

\* the columns generate_keys adds to a frame
KeyColumnNames ==
  {"matching_key_uti", "matching_key_straddle_uti", "matching_key_usi",
   "matching_key_huti", "matching_key_usi_value", "matching_key_uti_value",
   "matching_key_huti_dir", "matching_key_uti_dir", "matching_key_usi_dir",
   "ms_entity_lei"}

\* a column that feeds a key of the TSR generator is absent from its file
TsrFedColumnAbsent ==
  \E c \in Range(ReadColumns(key_generator.regime,
                             key_generator.asset_class)) :
    c \notin Range(key_generator.raw.columns)

\* a column that feeds a key of the DerivOne generator is absent
DerivOneFedColumnAbsent ==
  \E c \in Range(DerivOneReadColumns(derivone_key_generator.asset_class)) :
    c \notin Range(derivone_key_generator.raw.columns)

(* C21: when a column that feeds a matching key is absent from the record  *)
(* set, key generation never returns and never adds a key column to the    *)
(* frame, and the error it ends with is the KeyError of a missing column;  *)
(* this holds for the TSR generators and for the DerivOne generator.       *)
C21_MissingColumnFails ==
  /\ (key_generator.pc # "absent" /\ TsrFedColumnAbsent) =>
       /\ key_generator.pc \in {"validate_columns", "raised"}
       /\ key_generator.pc = "raised" => key_generator.error = "KeyError"
       /\ Range(key_generator.data.columns) \cap KeyColumnNames = {}
  /\ (derivone_key_generator.pc # "absent" /\ DerivOneFedColumnAbsent) =>
       /\ derivone_key_generator.pc
            \in {"validate_columns", "clean_columns", "constructed", "raised"}
       /\ derivone_key_generator.pc = "raised"
            => derivone_key_generator.error = "KeyError"
       /\ Range(derivone_key_generator.data.columns) \cap KeyColumnNames = {}

\* an interest-rate DerivOne file without 'Direction' passed validation and
\* made generate_keys raise
C21_Witness ==
  /\ derivone_key_generator.pc = "raised"
  /\ derivone_key_generator.asset_class = "IR"
  /\ "Direction" \notin Range(derivone_key_generator.raw.columns)
  /\ Len(derivone_key_generator.data.rows) = MaxDerivOneRows
  /\ derivone_key_generator.data # derivone_key_generator.raw

(* C24: each TSR key generator requires exactly the columns generate_keys  *)
(* reads for the asset class, so validate_columns rejects a record set     *)
(* only when a column that feeds a key is absent.                          *)
C24_RequiredEqualsRead ==
  key_generator.pc # "absent" =>
    /\ Range(key_generator.required_columns)
         = Range(ReadColumns(key_generator.regime, key_generator.asset_class))
    /\ key_generator.pc = "raised" => TsrFedColumnAbsent

\* the rows of the raw DerivOne frame whose six identifier cells are blank
AllBlankRecords ==
  {i \in 1..Len(derivone_key_generator.raw.rows) :
     \A c \in Range(IdentifierColumns(derivone_key_generator.asset_class)) :
       CleanValue(Value(derivone_key_generator.raw, i, c)) = ""}

(* C30: when DerivOneKeyGenerator.generate_keys has returned, every record *)
(* whose identifier columns were all blank carries, in every matching key, *)
(* a non-empty value that no other all-blank record carries.               *)
C30_BlankRecordsDistinctKeys ==
  derivone_key_generator.pc = "returned" =>
    \A k \in Range(derivone_key_generator.data.columns)
               \cap (KeyColumnNames \ {"ms_entity_lei"}) :
      \A i \in AllBlankRecords :
        /\ Value(derivone_key_generator.data, i, k) # ""
        /\ \A j \in AllBlankRecords \ {i} :
             Value(derivone_key_generator.data, i, k)
               # Value(derivone_key_generator.data, j, k)

\* the Direction column segregate_eq_trades reads for ASIC and for MAS
DirectionColumn(regime) == IF regime = "ASIC" THEN "Direction 1" ELSE "Direction"

\* the rows of a tagged frame that carry the tag, in the frame's order
RowsTagged(df, tag) ==
  SelectSeq(df.rows, LAMBDA row : row[Len(df.columns)] = tag)

(* C22: when equity segregation has run for ASIC, MAS or EMIR_REFIT, every *)
(* row is tagged EQD or EQS and none TBD; for ASIC and MAS a row is tagged  *)
(* EQD exactly when Contract Type is OPTN or OTHR, or is SWAP with a        *)
(* Direction that is neither null nor blank; and the run returns exactly    *)
(* the rows that carry its own tag, so that the EQS run and the EQD run     *)
(* split the input rows between them.                                       *)
C22_EquityTagsPartition ==
  (/\ tsr_filters.pc = "constructed"
   /\ tsr_filters.asset_class \in {"EQD", "EQS"}
   /\ tsr_filters.regime \in {"ASIC", "MAS", "EMIR_REFIT"})
    => /\ Len(tsr_filters.passed.rows) = Len(tsr_filters.given.rows)
       /\ \A i \in 1..Len(tsr_filters.given.rows) :
            /\ tsr_filters.passed.rows[i][1] = tsr_filters.given.rows[i][1]
            /\ Value(tsr_filters.passed, i, "EQ_Secondary_Asset_Class")
                 \in {"EQD", "EQS"}
            /\ tsr_filters.regime \in {"ASIC", "MAS"} =>
                 (Value(tsr_filters.passed, i, "EQ_Secondary_Asset_Class") = "EQD"
                    <=> \/ Value(tsr_filters.given, i, "Contract Type")
                             \in {"OPTN", "OTHR"}
                        \/ /\ Value(tsr_filters.given, i, "Contract Type") = "SWAP"
                           /\ Value(tsr_filters.given, i,
                                    DirectionColumn(tsr_filters.regime))
                                \notin {"NaN", "", "  "})
       /\ tsr_filters.data.rows
            = RowsTagged(tsr_filters.passed, tsr_filters.asset_class)

\* an EQS run for ASIC kept the swap without a direction and dropped the
\* swap with one
C22_Witness ==
  /\ tsr_filters.pc = "constructed"
  /\ tsr_filters.regime = "ASIC"
  /\ tsr_filters.asset_class = "EQS"
  /\ Len(tsr_filters.given.rows) = 2
  /\ Value(tsr_filters.given, 1, "Contract Type") = "SWAP"
  /\ Value(tsr_filters.given, 1, "Direction 1") = "BYER"
  /\ Value(tsr_filters.given, 2, "Contract Type") = "SWAP"
  /\ Value(tsr_filters.given, 2, "Direction 1") = "  "
  /\ Len(tsr_filters.data.rows) = 1
  /\ Value(tsr_filters.data, 1, "UTI") = Value(tsr_filters.given, 2, "UTI")

(* C23: when FX segregation has run for a supported regulator, the frame   *)
(* has the column FX_Secondary_Asset_Class, it has the rows it was passed  *)
(* and no other, every row is tagged FXC, FXO or TBD, and the run returns  *)
(* the rows not tagged FXO (FXC run) or not tagged FXC (FXO run).          *)
C23_FxTagsEveryRow ==
  (/\ tsr_filters.pc \notin {"absent", "init"}
   /\ tsr_filters.asset_class \in {"FX", "FXC", "FXO"}
   /\ tsr_filters.regime \in {"JFSA", "ASIC", "MAS", "EMIR_REFIT"})
    => /\ tsr_filters.pc = "constructed"
       /\ "FX_Secondary_Asset_Class" \in Range(tsr_filters.passed.columns)
       /\ Len(tsr_filters.passed.rows) = Len(tsr_filters.given.rows)
       /\ \A i \in 1..Len(tsr_filters.given.rows) :
            /\ tsr_filters.passed.rows[i][1] = tsr_filters.given.rows[i][1]
            /\ Value(tsr_filters.passed, i, "FX_Secondary_Asset_Class")
                 \in {"FXC", "FXO", "TBD"}
       /\ tsr_filters.asset_class = "FXC" =>
            tsr_filters.data.rows
              = SelectSeq(tsr_filters.passed.rows,
                          LAMBDA row : row[Len(row)] # "FXO")
       /\ tsr_filters.asset_class = "FXO" =>
            tsr_filters.data.rows
              = SelectSeq(tsr_filters.passed.rows,
                          LAMBDA row : row[Len(row)] # "FXC")

\* how often x occurs in the list s
Count(s, x) == Cardinality({i \in 1..Len(s) : s[i] = x})

(* C25: a run of main does not end inside the loop over the asset classes: *)
(* no failure of one asset class (an exception, a missing DerivOne file)   *)
(* ends the program before the loop is through, and when main returns,     *)
(* every asset class asked for is once in successful_asset_classes or once *)
(* in failed_asset_classes, and not in both.                               *)
C25_LoopReachesEnd ==
  main_run.pc # "absent" =>
    /\ main_run.pc = "exited" => main_run.exited_in # "process_derivone"
    /\ main_run.pc = "returned" =>
         \A a \in Range(main_run.requested) :
           Count(main_run.successful_asset_classes, a)
             + Count(main_run.failed_asset_classes, a) = 1

(* C26: after a call Config(...) made when the instance exists, each of    *)
(* env, regime, run_date and use_case_name holds the argument of the call  *)
(* if one was given, and the value it held before the call if none was.    *)
C26_SetsExactlyGiven ==
  (config_instance.pc = "called" /\ config_instance.before # NoInstance) =>
    \A p \in {"env", "regime", "run_date", "use_case_name"} :
      config_instance.instance[p]
        = IF config_instance.args[p] # "None" THEN config_instance.args[p]
          ELSE config_instance.before[p]

C28_MatchedRowsSound ==
  LET Sound(lcells, rcells, k) ==
        /\ rounds[k].keys = on_keys_list[rounds[k].iteration]
        /\ \E l \in Range(rounds[k].left_pool) :
             /\ lcells = df_left.rows[l]
             /\ \E r \in Range(rounds[k].right_pool) :
                  /\ rcells = df_right.rows[r]
                  /\ KeysEqual(l, r, rounds[k].keys)
      MatchedRowsSound(df, ks) ==
        \E lpos \in {Positions(df, LeftNames)},
           rpos \in {Positions(df, RightNames)},
           fpos \in {ColPos(df.columns, "matching_flag")} :
          \A p \in 1..Len(df.rows) :
            At(df.rows[p], fpos) = "matched" =>
              \E lcells \in {Picked(df.rows[p], lpos)},
                 rcells \in {Picked(df.rows[p], rpos)} :
                \E k \in ks : Sound(lcells, rcells, k)
  IN /\ \A k \in 1..Len(rounds) :
          /\ FlagRows(rounds[k].matched_df, "matched")
               = 1..Len(rounds[k].matched_df.rows)
          /\ MatchedRowsSound(rounds[k].matched_df, {k})
     /\ pc = "returned" => MatchedRowsSound(result, 1..Len(rounds))

\* a result with a matched row made in the second round, while a record
\* matched in the first round had an equal value under the second key pair
C28_Witness ==
  /\ pc = "returned"
  /\ Len(rounds) = 2
  /\ rounds[2].matched_df.rows # <<>>
  /\ FlagRows(result, "matched") # {}
  /\ \E r \in RoundRight(rounds[1]), l \in Range(rounds[2].left_pool) :
       KeysEqual(l, r, on_keys_list[2])

\* the rows of a frame as (flag, left id, right id): an identifying column
\* is read under its prefixed name and, where that holds no value, under its
\* original name; None and NaN both stand for no value
RowKeysAnyName(df) ==
  LET Id(p, prefixed, original) ==
        IF Cell(df, p, prefixed) \notin {"NaN", "None"}
        THEN Cell(df, p, prefixed)
        ELSE IF Cell(df, p, original) \notin {"NaN", "None"}
        THEN Cell(df, p, original)
        ELSE "NaN"
  IN {<<Cell(df, p, "matching_flag"), Id(p, LeftIdCol, left_columns[1]),
        Id(p, RightIdCol, right_columns[1])>> : p \in 1..Len(df.rows)}

\* the second call, when it returns, matched the records the first matched
\* and, for the same return_type, returns the same rows
C29_SameClassification ==
  (second_call.pc = "second call" /\ pc = "returned") =>
    /\ left_matched_indices = second_call.first.left_matched_indices
    /\ right_matched_indices = second_call.first.right_matched_indices
    /\ return_type = second_call.first.return_type =>
         RowKeysAnyName(result) = RowKeysAnyName(second_call.first.result)

(* C29: a second call of merge_data on the same DataMerger, with the same  *)
(* or another return_type, with empty or non-empty prefixes, does not      *)
(* raise, and classifies the records as the first call did.                *)
C29_SecondCallSucceeds ==
  /\ second_call.pc = "second call" => pc # "raised"
  /\ C29_SameClassification

====
